---- MODULE Spec2Model ----
(***************************************************************************)
(* Verification model of the Resumate analysis pipeline.                   *)
(*                                                                         *)
(*   Part I    OrchestrationEngine.run (backend/orchestration.py) with the *)
(*             agent wrappers of backend/agents.py, several run() calls    *)
(*             sharing one engine and its asyncio.Semaphore(2).            *)
(*   Part II   compare_skills (backend/tools/skill_comparator.py).         *)
(*   Part III  fuse_components (backend/tools/ats_scorer.py).              *)
(*   Part IV   the save step of OrchestrationEngine.run and the files of   *)
(*             results_dir it writes.                                      *)
(*   Part V    semantic_similarity_resume_jd                               *)
(*             (backend/tools/semantic_matcher.py).                        *)
(*   Part VI   the embedding cache of EmbeddingEngine                      *)
(*             (backend/utils/embeddings.py) under several threads.        *)
(*   Part VII  AnalyticsEngine (backend/models/analytics_engine.py).       *)
(*   Part VIII compute_action_verb_ratio (backend/tools/ats_scorer.py).    *)
(*   Part IX   ResumeAgent.process and MatcherAgent.match                  *)
(*             (backend/agents.py, backend/tools/resume_parser.py).        *)
(*   Part X    ScoringAgent.score and _extract_jd_keywords                 *)
(*             (backend/agents.py).                                        *)
(*                                                                         *)
(* Environment assumptions of Part I: a stage fails only by raising an     *)
(* Exception inside the tool the agent wraps; dispatching a thread         *)
(* (asyncio.to_thread) and the semaphore itself do not fail; the           *)
(* semaphore wakes its waiters in FIFO order.                              *)
(***************************************************************************)
EXTENDS Integers, Sequences, FiniteSets, TLC

(***************************************************************************)
(* Bounds                                                                  *)
(***************************************************************************)
NumRuns == 2

Runs == 1..NumRuns

(***************************************************************************)
(* Program constants                                                       *)
(***************************************************************************)
SemaphoreCapacity == 2

VARIABLES
    pc,             \* run -> position of the run() coroutine
    resume_task,    \* run -> state of resume_task
    jd_task,        \* run -> state of jd_task
    jd_val,         \* run -> value jd_task returned
    matcher_st,     \* run -> state of the run_matcher() coroutine
    optimizer_st,   \* run -> state of the run_optimizer() coroutine
    score_st,       \* run -> state of the scoring thread
    matcher_val,    \* run -> value run_matcher() returned
    optimizer_val,  \* run -> value run_optimizer() returned
    result,         \* run -> the result dict (key -> payload), meta excluded
    meta,           \* run -> keys present in result["meta"]
    raised,         \* run -> stages of the run whose tool raised (input log)
    llm_semaphore,  \* free permits of self._llm_semaphore
    sem_waiters,    \* FIFO of <<run, stage>> blocked in "async with"
    \* Part II
    cs_pc,          \* "idle", "called" or "returned"
    cs_in,          \* arguments of the compare_skills call
    cs_out,         \* its return value
    \* Part III
    fuse_pc,        \* "idle", "called" or "returned"
    fuse_in,        \* arguments of the fuse_components call
    fuse_out,       \* its return value
    \* Part IV
    save_pc,        \* run -> "idle", "saving" (at "if save_result:") or
                    \*        "returned"
    started_at,     \* run -> int(t0), the second the run started in
    save_record,    \* run -> the result dict (key -> payload), meta excluded
    save_meta,      \* run -> keys present in result["meta"]
    save_call,      \* run -> what the save step of the run did (input log)
    store,          \* second -> the file resumate_result_<second>.json
    \* Part V
    sm_pc,          \* "idle", "called" or "returned"
    sm_in,          \* arguments and environment of the
                    \* semantic_similarity_resume_jd call
    sm_out,         \* its return value
    \* Part VI
    emb_cache,      \* text -> vector held by self._embedding_cache
    emb_models,     \* which of openai_client and local_model are set
    th_pc,          \* thread -> "idle", "hit" or "miss" (after the cache
                    \*           test of get_embedding)
    th_text,        \* thread -> argument of its get_embedding call
    th_ret,         \* thread -> what its last call returned or raised
    th_calls,       \* thread -> number of calls it has made
    \* Part VII
    an_pc,          \* "idle", "called" or "returned"
    an_in,          \* method called on the AnalyticsEngine and its arguments
    an_out,         \* what it returned or raised
    \* Part VIII
    av_pc,          \* "idle", "called" or "returned"
    av_in,          \* resume_text given to compute_action_verb_ratio
    av_out,         \* the ratio it returned
    \* Part IX
    mt_pc,          \* "idle", "called", "parsed" or "matched"
    mt_in,          \* the resume, the JD and the environment of the call
    mt_resume,      \* resume_data as ResumeAgent.process returned it
    mt_out,         \* what MatcherAgent.match returned
    \* Part X
    sc_pc,          \* "idle", "called" or "returned"
    sc_in,          \* jd_data, matcher_result and what score_application does
    sc_keywords,    \* what _extract_jd_keywords returned or raised
    sc_out          \* what score returned

orchVars == <<pc, resume_task, jd_task, jd_val, matcher_st, optimizer_st, score_st,
              matcher_val, optimizer_val, result, meta, raised,
              llm_semaphore, sem_waiters>>

skillVars == <<cs_pc, cs_in, cs_out>>

fuseVars == <<fuse_pc, fuse_in, fuse_out>>

storeVars == <<save_pc, started_at, save_record, save_meta, save_call, store>>

semanticVars == <<sm_pc, sm_in, sm_out>>

cacheVars == <<emb_cache, emb_models, th_pc, th_text, th_ret, th_calls>>

analyticsVars == <<an_pc, an_in, an_out>>

verbVars == <<av_pc, av_in, av_out>>

matcherVars == <<mt_pc, mt_in, mt_resume, mt_out>>

scoringVars == <<sc_pc, sc_in, sc_keywords, sc_out>>

\* The variables of Parts II and later, which the actions of Part I leave
\* alone.
pureVars == <<skillVars, fuseVars, storeVars, semanticVars, cacheVars,
              analyticsVars, verbVars, matcherVars, scoringVars>>

\* The variables the actions of one of these parts leave alone.
notSkillVars == <<orchVars, fuseVars, storeVars, semanticVars, cacheVars,
                  analyticsVars, verbVars, matcherVars, scoringVars>>

notFuseVars == <<orchVars, skillVars, storeVars, semanticVars, cacheVars,
                 analyticsVars, verbVars, matcherVars, scoringVars>>

notStoreVars == <<orchVars, skillVars, fuseVars, semanticVars, cacheVars,
                  analyticsVars, verbVars, matcherVars, scoringVars>>

notSemanticVars == <<orchVars, skillVars, fuseVars, storeVars, cacheVars,
                     analyticsVars, verbVars, matcherVars, scoringVars>>

notCacheVars == <<orchVars, skillVars, fuseVars, storeVars, semanticVars,
                  analyticsVars, verbVars, matcherVars, scoringVars>>

notAnalyticsVars == <<orchVars, skillVars, fuseVars, storeVars, semanticVars,
                      cacheVars, verbVars, matcherVars, scoringVars>>

notVerbVars == <<orchVars, skillVars, fuseVars, storeVars, semanticVars,
                 cacheVars, analyticsVars, matcherVars, scoringVars>>

notMatcherVars == <<orchVars, skillVars, fuseVars, storeVars, semanticVars,
                    cacheVars, analyticsVars, verbVars, scoringVars>>

notScoringVars == <<orchVars, skillVars, fuseVars, storeVars, semanticVars,
                    cacheVars, analyticsVars, verbVars, matcherVars>>

ToolOutcomes == {"returns", "raises"}

Null == "null"

(***************************************************************************)
(* Agent wrappers: what the call of the agent method does when the tool it *)
(* wraps returns or raises.  A call result is [raised, value].             *)
(***************************************************************************)
Returned(v) == [raised |-> FALSE, value |-> v]
Raises == [raised |-> TRUE, value |-> "exception"]

ResumeAgent_process_swallow(tool) ==
    IF tool = "raises" THEN Returned("resume_default_error")
    ELSE Returned("parsed_resume")

\* ResumeAgent.process logs and re-raises.
ResumeAgent_process(tool) ==
    IF tool = "raises" THEN Raises ELSE Returned("parsed_resume")

JDAnalyzerAgent_process_reraise(tool) ==
    IF tool = "raises" THEN Raises ELSE Returned("parsed_jd")

\* JDAnalyzerAgent.process returns {"requirements": {}, "parsed_skills": [],
\* "error": str(e)} when the analysis raises.
JDAnalyzerAgent_process(tool) ==
    IF tool = "raises" THEN Returned("jd_default_error")
    ELSE Returned("parsed_jd")

\* MatcherAgent.match returns {"semantic": {}, "skill_comparator": {},
\* "error": str(e)} when matching raises.
MatcherAgent_match(tool) ==
    IF tool = "raises" THEN Returned("matcher_default_error")
    ELSE Returned("match_result")

\* ScoringAgent.score returns {"ats": {"final_score": 0}, "raw_signals": {},
\* "error": str(e)} when scoring raises.
ScoringAgent_score(tool) ==
    IF tool = "raises" THEN Returned("ats_default_error")
    ELSE Returned("score_result")

\* OptimizationAgent.optimize returns {"error": str(e)} when the optimizer
\* raises.
OptimizationAgent_optimize(tool) ==
    IF tool = "raises" THEN Returned("optimizer_error_dict")
    ELSE Returned("optimized")

\* ScoringAgent._extract_jd_keywords on the jd dict: the degraded JD payload
\* has requirements = {} and parsed_skills = [], so the lookup goes on to
\* call .get on a list and raises inside score's try block.
ScoreToolOutcomes(jd) ==
    IF jd = "jd_default_error" THEN {"raises"} ELSE ToolOutcomes

(***************************************************************************)
(* The semaphore                                                           *)
(***************************************************************************)
ReleaseOnSuccessOnly(call) ==
    IF call.raised \/ call.value \in {"matcher_default_error",
                                       "optimizer_error_dict"}
    THEN llm_semaphore
    ELSE llm_semaphore + 1

\* "async with self._llm_semaphore": __aexit__ releases the permit whether
\* the body returned or raised.
Release(call) == llm_semaphore + 1

(***************************************************************************)
(* run(): the except handler and the joins                                 *)
(***************************************************************************)
ErrorPath_no_status(r) ==
    /\ result' = [result EXCEPT ![r] = ("error" :> "message") @@ @]
    /\ meta' = [meta EXCEPT ![r] = @ \cup {"elapsed_s"}]
    /\ pc' = [pc EXCEPT ![r] = "finishing"]

\* except Exception as e: status = "error", error = str(e), elapsed_s set.
ErrorPath(r) ==
    /\ result' = [result EXCEPT ![r] =
                    ("status" :> "error") @@ ("error" :> "message") @@ @]
    /\ meta' = [meta EXCEPT ![r] = @ \cup {"elapsed_s"}]
    /\ pc' = [pc EXCEPT ![r] = "finishing"]

\* await asyncio.gather(resume_task, jd_task): resumes when both tasks have
\* returned, or as soon as one of them has raised.
Stage1Ready(r) ==
    \/ resume_task[r] = "raised"
    \/ jd_task[r] = "raised"
    \/ resume_task[r] = "returned" /\ jd_task[r] = "returned"

Stage2ReadyMatcherOnly(r) ==
    \/ matcher_st[r] = "raised"
    \/ optimizer_st[r] = "raised"
    \/ matcher_st[r] = "returned"

\* await asyncio.gather(run_matcher(), run_optimizer())
Stage2Ready(r) ==
    \/ matcher_st[r] = "raised"
    \/ optimizer_st[r] = "raised"
    \/ matcher_st[r] = "returned" /\ optimizer_st[r] = "returned"

\* run_optimizer(): try ... except Exception: return None
run_optimizer(call) ==
    IF call.raised THEN Returned(Null) ELSE call

\* run_matcher() has no handler of its own.
run_matcher(call) == call

TaskState(call) == IF call.raised THEN "raised" ELSE "returned"

(***************************************************************************)
(* run(): the save step                                                    *)
(***************************************************************************)
\* What open(path, "w") and json.dump(result, fh) can do: both succeed,
\* open raises, or json.dump raises after open has truncated the file.
WriteOutcomes == {"written", "open_raises", "dump_raises"}

SaveMeta_path_before_write(m, save_result, write) ==
    IF save_result THEN m \cup {"result_path"} ELSE m

\* result["meta"]["result_path"] = path, reached only after the write.
SaveMeta(m, save_result, write) ==
    IF save_result /\ write = "written" THEN m \cup {"result_path"} ELSE m

(***************************************************************************)
(* Actions of Part I                                                       *)
(***************************************************************************)
OrchInit ==
    /\ pc = [r \in Runs |-> "idle"]
    /\ resume_task = [r \in Runs |-> "none"]
    /\ jd_task = [r \in Runs |-> "none"]
    /\ jd_val = [r \in Runs |-> "unset"]
    /\ matcher_st = [r \in Runs |-> "none"]
    /\ optimizer_st = [r \in Runs |-> "none"]
    /\ score_st = [r \in Runs |-> "none"]
    /\ matcher_val = [r \in Runs |-> "unset"]
    /\ optimizer_val = [r \in Runs |-> "unset"]
    /\ result = [r \in Runs |-> <<>>]
    /\ meta = [r \in Runs |-> {}]
    /\ raised = [r \in Runs |-> {}]
    /\ llm_semaphore = SemaphoreCapacity
    /\ sem_waiters = <<>>

\* run() up to the first await: result = {"meta": {...}}, both tasks created.
StartRun(r) ==
    /\ pc[r] = "idle"
    /\ pc' = [pc EXCEPT ![r] = "stage1"]
    /\ result' = [result EXCEPT ![r] = ("meta" :> "meta")]
    /\ meta' = [meta EXCEPT ![r] = {"started_at", "target_role"}]
    /\ resume_task' = [resume_task EXCEPT ![r] = "running"]
    /\ jd_task' = [jd_task EXCEPT ![r] = "running"]
    /\ UNCHANGED pureVars
    /\ UNCHANGED <<jd_val, matcher_st, optimizer_st, score_st, matcher_val,
                   optimizer_val, raised, llm_semaphore, sem_waiters>>

\* The thread of resume_task finishes self.resume_agent.process.
ResumeFinish(r) ==
    /\ resume_task[r] = "running"
    /\ \E tool \in ToolOutcomes :
         /\ resume_task' = [resume_task EXCEPT
                              ![r] = TaskState(ResumeAgent_process(tool))]
         /\ raised' = [raised EXCEPT ![r] =
                         IF tool = "raises" THEN @ \cup {"resume"} ELSE @]
    /\ UNCHANGED pureVars
    /\ UNCHANGED <<pc, jd_task, jd_val, matcher_st, optimizer_st, score_st,
                   matcher_val, optimizer_val, result, meta, llm_semaphore,
                   sem_waiters>>

\* The thread of jd_task finishes self.jd_agent.process.
JdFinish(r) ==
    /\ jd_task[r] = "running"
    /\ \E tool \in ToolOutcomes :
         LET call == JDAnalyzerAgent_process(tool) IN
         /\ jd_task' = [jd_task EXCEPT ![r] = TaskState(call)]
         /\ jd_val' = [jd_val EXCEPT ![r] = call.value]
         /\ raised' = [raised EXCEPT ![r] =
                         IF tool = "raises" THEN @ \cup {"jd"} ELSE @]
    /\ UNCHANGED pureVars
    /\ UNCHANGED <<pc, resume_task, matcher_st, optimizer_st, score_st,
                   matcher_val, optimizer_val, result, meta, llm_semaphore,
                   sem_waiters>>

\* resume_data, jd_data = await asyncio.gather(resume_task, jd_task); on
\* success the two results are stored and gather(run_matcher(),
\* run_optimizer()) schedules both coroutines, which queue on the semaphore
\* in that order; an exception goes to the except handler.
Join1(r) ==
    /\ pc[r] = "stage1"
    /\ Stage1Ready(r)
    /\ IF resume_task[r] = "raised" \/ jd_task[r] = "raised"
       THEN /\ ErrorPath(r)
            /\ UNCHANGED <<matcher_st, optimizer_st, sem_waiters>>
       ELSE /\ result' = [result EXCEPT ![r] =
                            ("resume" :> "parsed_resume")
                            @@ ("jd" :> jd_val[r]) @@ @]
            /\ matcher_st' = [matcher_st EXCEPT ![r] = "waiting"]
            /\ optimizer_st' = [optimizer_st EXCEPT ![r] = "waiting"]
            /\ sem_waiters' = sem_waiters \o <<<<r, "matcher">>,
                                                <<r, "optimizer">>>>
            /\ pc' = [pc EXCEPT ![r] = "stage2"]
            /\ UNCHANGED meta
    /\ UNCHANGED pureVars
    /\ UNCHANGED <<resume_task, jd_task, jd_val, score_st, matcher_val,
                   optimizer_val, raised, llm_semaphore>>

\* Semaphore.acquire completes for the longest-waiting coroutine when a
\* permit is free; the coroutine enters the "async with" body and
\* dispatches its agent call to a thread.
Acquire(r, stage) ==
    /\ sem_waiters # <<>>
    /\ Head(sem_waiters) = <<r, stage>>
    /\ llm_semaphore > 0
    /\ llm_semaphore' = llm_semaphore - 1
    /\ sem_waiters' = Tail(sem_waiters)
    /\ IF stage = "matcher"
       THEN /\ matcher_st' = [matcher_st EXCEPT ![r] = "running"]
            /\ UNCHANGED optimizer_st
       ELSE /\ optimizer_st' = [optimizer_st EXCEPT ![r] = "running"]
            /\ UNCHANGED matcher_st
    /\ UNCHANGED pureVars
    /\ UNCHANGED <<pc, resume_task, jd_task, jd_val, score_st, matcher_val,
                   optimizer_val, result, meta, raised>>

\* run_matcher(): the thread running self.matcher_agent.match finishes, the
\* "async with" block exits and the coroutine returns or raises.
MatcherFinish(r) ==
    /\ matcher_st[r] = "running"
    /\ \E tool \in ToolOutcomes :
         LET call == MatcherAgent_match(tool) IN
         /\ llm_semaphore' = Release(call)
         /\ matcher_st' = [matcher_st EXCEPT
                             ![r] = TaskState(run_matcher(call))]
         /\ matcher_val' = [matcher_val EXCEPT
                              ![r] = run_matcher(call).value]
         /\ raised' = [raised EXCEPT ![r] =
                         IF tool = "raises" THEN @ \cup {"matcher"} ELSE @]
    /\ UNCHANGED pureVars
    /\ UNCHANGED <<pc, resume_task, jd_task, jd_val, optimizer_st, score_st,
                   optimizer_val, result, meta, sem_waiters>>

\* run_optimizer(): the thread running self.optimizer_agent.optimize
\* finishes, the "async with" block exits, the handler maps an exception to
\* None.
OptimizerFinish(r) ==
    /\ optimizer_st[r] = "running"
    /\ \E tool \in ToolOutcomes :
         LET call == OptimizationAgent_optimize(tool) IN
         /\ llm_semaphore' = Release(call)
         /\ optimizer_st' = [optimizer_st EXCEPT
                               ![r] = TaskState(run_optimizer(call))]
         /\ optimizer_val' = [optimizer_val EXCEPT
                                ![r] = run_optimizer(call).value]
         /\ raised' = [raised EXCEPT ![r] =
                         IF tool = "raises" THEN @ \cup {"optimizer"} ELSE @]
    /\ UNCHANGED pureVars
    /\ UNCHANGED <<pc, resume_task, jd_task, jd_val, matcher_st, score_st,
                   matcher_val, result, meta, sem_waiters>>

\* matcher, optimized = await asyncio.gather(...); the two values are
\* stored and the scoring thread is dispatched.
Join2(r) ==
    /\ pc[r] = "stage2"
    /\ Stage2Ready(r)
    /\ IF matcher_st[r] = "raised" \/ optimizer_st[r] = "raised"
       THEN /\ ErrorPath(r)
            /\ UNCHANGED score_st
       ELSE /\ result' = [result EXCEPT ![r] =
                            ("matcher" :> matcher_val[r])
                            @@ ("optimized_resume" :> optimizer_val[r]) @@ @]
            /\ score_st' = [score_st EXCEPT ![r] = "running"]
            /\ pc' = [pc EXCEPT ![r] = "scoring"]
            /\ UNCHANGED meta
    /\ UNCHANGED pureVars
    /\ UNCHANGED <<resume_task, jd_task, jd_val, matcher_st, optimizer_st,
                   matcher_val, optimizer_val, raised, llm_semaphore,
                   sem_waiters>>

\* score = await asyncio.to_thread(self.scoring_agent.score, ...), then
\* result["ats"], elapsed_s and status = "success".
ScoreFinish(r) ==
    /\ pc[r] = "scoring"
    /\ score_st[r] = "running"
    /\ \E tool \in ScoreToolOutcomes(result[r]["jd"]) :
         LET call == ScoringAgent_score(tool) IN
         /\ score_st' = [score_st EXCEPT ![r] = TaskState(call)]
         /\ raised' = [raised EXCEPT ![r] =
                         IF tool = "raises" THEN @ \cup {"scoring"} ELSE @]
         /\ IF call.raised
            THEN ErrorPath(r)
            ELSE /\ result' = [result EXCEPT ![r] =
                                 ("ats" :> call.value)
                                 @@ ("status" :> "success") @@ @]
                 /\ meta' = [meta EXCEPT ![r] = @ \cup {"elapsed_s"}]
                 /\ pc' = [pc EXCEPT ![r] = "finishing"]
    /\ UNCHANGED pureVars
    /\ UNCHANGED <<resume_task, jd_task, jd_val, matcher_st, optimizer_st,
                   matcher_val, optimizer_val, llm_semaphore, sem_waiters>>

\* if save_result: try to write the file and record result_path; a failed
\* write is logged.  Then return result.
SaveAndReturn(r) ==
    /\ pc[r] = "finishing"
    /\ \E save_result \in BOOLEAN, write \in WriteOutcomes :
         meta' = [meta EXCEPT ![r] = SaveMeta(@, save_result, write)]
    /\ pc' = [pc EXCEPT ![r] = "returned"]
    /\ UNCHANGED pureVars
    /\ UNCHANGED <<resume_task, jd_task, jd_val, matcher_st, optimizer_st,
                   score_st, matcher_val, optimizer_val, result, raised,
                   llm_semaphore, sem_waiters>>

OrchNext ==
    \/ \E r \in Runs : StartRun(r)
    \/ \E r \in Runs : ResumeFinish(r)
    \/ \E r \in Runs : JdFinish(r)
    \/ \E r \in Runs : Join1(r)
    \/ \E r \in Runs, stage \in {"matcher", "optimizer"} : Acquire(r, stage)
    \/ \E r \in Runs : MatcherFinish(r)
    \/ \E r \in Runs : OptimizerFinish(r)
    \/ \E r \in Runs : Join2(r)
    \/ \E r \in Runs : ScoreFinish(r)
    \/ \E r \in Runs : SaveAndReturn(r)

(***************************************************************************)
(* Part III: fuse_components (backend/tools/ats_scorer.py).                *)
(* Signals and weights are integers in hundredths (30 is 0.30); component  *)
(* and final scores are integers in hundredths of a point (10000 is        *)
(* 100.00), which is the precision round(x, 2) keeps.                      *)
(***************************************************************************)
WeightKeys == {"semantic", "skills", "keywords", "action_verbs",
               "experience", "formatting"}

\* The default weights of fuse_components.
DefaultWeights ==
    [semantic |-> 30, skills |-> 30, keywords |-> 15, action_verbs |-> 8,
     experience |-> 12, formatting |-> 0 - 5]

\* Signal values offered to the call, also outside [0, 1].
SignalValues == {0 - 50, 0, 60, 100, 150}

\* Weight mappings offered to the call; given = FALSE is weights=None.
WeightChoices ==
    { [given |-> FALSE, w |-> [k \in WeightKeys |-> 0]] }
    \cup
    { [given |-> TRUE, w |-> w] :
        w \in { DefaultWeights,
                [k \in WeightKeys |-> 0],
                [k \in WeightKeys |-> 0 - 40],
                [k \in WeightKeys |-> IF k = "formatting" THEN 90 ELSE 250],
                [k \in WeightKeys |-> IF k = "formatting" THEN 0 - 5
                                      ELSE 1] } }

Max(a, b) == IF a >= b THEN a ELSE b
Min(a, b) == IF a <= b THEN a ELSE b
Abs(a) == IF a >= 0 THEN a ELSE 0 - a

\* Nearest integer to a / b for a >= 0, b > 0.
RoundDiv(a, b) == (2 * a + b) \div (2 * b)

clamp01_identity(x) == x

\* _clamp01: max(0.0, min(1.0, float(x))), in hundredths.
clamp01(x) == Max(0, Min(100, x))

RECURSIVE SumAbsWeights_with_formatting(_, _)
SumAbsWeights_with_formatting(w, ks) ==
    IF ks = {} THEN Abs(w["formatting"])
    ELSE LET k == CHOOSE x \in ks : TRUE
         IN Abs(w[k]) + SumAbsWeights_with_formatting(w, ks \ {k})

\* Sum of abs(w[k]) over the keys in ks.
RECURSIVE SumAbsWeights(_, _)
SumAbsWeights(w, ks) ==
    IF ks = {} THEN 0
    ELSE LET k == CHOOSE x \in ks : TRUE
         IN Abs(w[k]) + SumAbsWeights(w, ks \ {k})

fuse_components(semantic_score, skill_fit_index, keyword_density, action_verb_ratio, experience_relevance, formatting_penalty, weights_arg) ==
    LET weights == IF ~weights_arg.given THEN DefaultWeights
                   ELSE weights_arg.w
        s_sem == clamp01(semantic_score)
        s_ski == clamp01(skill_fit_index)
        s_key == clamp01(keyword_density)
        s_act == clamp01(action_verb_ratio)
        s_exp == clamp01(experience_relevance)
        s_fmt_pen == clamp01(formatting_penalty)
        \* in 1/10000
        positive_sum == weights["semantic"] * s_sem
                        + weights["skills"] * s_ski
                        + weights["keywords"] * s_key
                        + weights["action_verbs"] * s_act
                        + weights["experience"] * s_exp
        penalty == Max(0, weights["formatting"] * s_fmt_pen)
        raw_score == positive_sum + penalty
        wsum == SumAbsWeights(weights, WeightKeys \ {"formatting"})
        \* in 1/100; "or 1" replaces a zero sum
        denom == IF wsum = 0 THEN 100 ELSE wsum
        \* final_norm = clamp01(raw_score / denom); final_pct is
        \* round(final_norm * 100, 2), here in hundredths of a point
        final_pct == IF raw_score <= 0 THEN clamp01(0) * 100
                     ELSE IF raw_score >= 100 * denom THEN clamp01(100) * 100
                     ELSE RoundDiv(100 * raw_score, denom)
    IN [components |->
           [semantic |-> s_sem * 100,
            skills |-> s_ski * 100,
            keyword_density |-> s_key * 100,
            action_verb_ratio |-> s_act * 100,
            experience_relevance |-> s_exp * 100,
            formatting_penalty |-> s_fmt_pen * 100],
        weights |-> weights,
        final_score |-> final_pct]

FuseIdle ==
    /\ fuse_pc = "idle"
    /\ fuse_in = "none"
    /\ fuse_out = "none"

FuseInit ==
    /\ fuse_in \in [semantic_score : SignalValues,
                    skill_fit_index : SignalValues,
                    keyword_density : SignalValues,
                    action_verb_ratio : SignalValues,
                    experience_relevance : SignalValues,
                    formatting_penalty : SignalValues,
                    weights : WeightChoices]
    /\ fuse_pc = "called"
    /\ fuse_out = "none"

CallFuse ==
    /\ fuse_pc = "called"
    /\ fuse_pc' = "returned"
    /\ fuse_out' = fuse_components(
                     fuse_in.semantic_score, fuse_in.skill_fit_index,
                     fuse_in.keyword_density, fuse_in.action_verb_ratio,
                     fuse_in.experience_relevance,
                     fuse_in.formatting_penalty, fuse_in.weights)
    /\ UNCHANGED fuse_in

(***************************************************************************)
(* Part II: compare_skills (backend/tools/skill_comparator.py).            *)
(* A skill string is a sequence of one-character strings.  Similarities    *)
(* are kept exact as fractions <<numerator, denominator>> with a positive  *)
(* denominator; a rounded similarity round(x, 3) is an integer in          *)
(* thousandths.  An embedding is a vector of two integers.                 *)
(***************************************************************************)
MaxSkills == 2

\* The skill strings offered to the call: "a", "A", "b", "a b", "a !".
SkillPool == { <<"a">>, <<"A">>, <<"b">>, <<"a", " ", "b">>,
               <<"a", " ", "!">> }

SkillLists == UNION { [1..n -> SkillPool] : n \in 0..MaxSkills }

\* Skill strings of up to four tokens, offered to calls without embed_fn:
\* "a b c d", "a b c e", "a b c", "A  b c", "d".
TokenSkillPool == { <<"a", " ", "b", " ", "c", " ", "d">>,
                    <<"a", " ", "b", " ", "c", " ", "e">>,
                    <<"a", " ", "b", " ", "c">>,
                    <<"A", " ", " ", "b", " ", "c">>,
                    <<"d">> }

TokenSkillLists == UNION { [1..n -> TokenSkillPool] : n \in 0..MaxSkills }

\* embed_fn offered to the call: absent, raising, or one of three
\* embeddings; e_signed has negative cosines.
EmbedChoices == {"none", "raises", "e_same", "e_mixed", "e_signed"}

\* semantic_threshold offered to the call, in hundredths (default 0.75).
ThresholdChoices == {75, 0, 0 - 50}

NoneSkill == <<"None">>

\* The embedding e_signed gives its texts.
EmbedSigned(text) ==
    IF text = <<"a">> THEN <<1, 0>>
    ELSE IF text = <<"A">> THEN <<0 - 1, 0>>
    ELSE IF text = <<"b">> THEN <<0 - 3, 4>>
    ELSE IF text = <<"a", " ", "b">> THEN <<3, 0 - 4>>
    ELSE <<0, 1>>

Embed(choice, text) ==
    IF choice = "e_same" THEN <<1, 0>>
    ELSE IF choice = "e_signed" THEN EmbedSigned(text)
    ELSE IF text = <<"a">> THEN <<1, 0>>
    ELSE IF text = <<"A">> THEN <<4, 3>>
    ELSE IF text = <<"b">> THEN <<3, 4>>
    ELSE IF text = <<"a", " ", "b">> THEN <<0, 1>>
    ELSE <<0, 0>>

IsSpace(c) == c = " "

Lower(c) == IF c = "A" THEN "a" ELSE IF c = "B" THEN "b" ELSE c

\* The characters re.sub(r"[^a-z0-9+#\.\- ]", "", x) keeps.
Kept(c) == c \in {"a", "b", "c", "d", "e", " ", "+", "#", ".", "-"}

RECURSIVE LStrip(_)
LStrip(x) ==
    IF x = <<>> THEN x
    ELSE IF IsSpace(Head(x)) THEN LStrip(Tail(x)) ELSE x

RECURSIVE RStrip(_)
RStrip(x) ==
    IF x = <<>> THEN x
    ELSE IF IsSpace(x[Len(x)]) THEN RStrip(SubSeq(x, 1, Len(x) - 1)) ELSE x

\* re.sub(r"\s+", " ", x)
RECURSIVE CollapseSpaces(_)
CollapseSpaces(x) ==
    IF Len(x) < 2 THEN x
    ELSE IF IsSpace(x[1]) /\ IsSpace(x[2]) THEN CollapseSpaces(Tail(x))
    ELSE <<x[1]>> \o CollapseSpaces(Tail(x))

\* _normalize: strip, lower, drop the other characters, collapse spaces.
normalize(x) ==
    LET stripped == RStrip(LStrip(x))
        lowered == [k \in 1..Len(stripped) |-> Lower(stripped[k])]
    IN CollapseSpaces(SelectSeq(lowered, Kept))

\* set(x.split()): the whitespace-separated tokens of x.
RECURSIVE SplitTokens(_, _)
SplitTokens(x, cur) ==
    IF x = <<>> THEN (IF cur = <<>> THEN {} ELSE {cur})
    ELSE IF IsSpace(Head(x))
         THEN (IF cur = <<>> THEN {} ELSE {cur}) \cup SplitTokens(Tail(x), <<>>)
         ELSE SplitTokens(Tail(x), Append(cur, Head(x)))

simple_token_overlap_jaccard(a, b) ==
    LET aset == SplitTokens(normalize(a), <<>>)
        bset == SplitTokens(normalize(b), <<>>)
    IN IF aset = {} \/ bset = {} THEN <<0, 1>>
       ELSE <<Cardinality(aset \cap bset), Cardinality(aset \cup bset)>>

\* _simple_token_overlap
simple_token_overlap(a, b) ==
    LET aset == SplitTokens(normalize(a), <<>>)
        bset == SplitTokens(normalize(b), <<>>)
    IN IF aset = {} \/ bset = {} THEN <<0, 1>>
       ELSE <<Cardinality(aset \cap bset),
              Max(Cardinality(aset), Cardinality(bset))>>

\* np.linalg.norm of a vector of the model (all have an integral norm).
Norm(v) == CHOOSE n \in 0..5 : n * n = v[1] * v[1] + v[2] * v[2]

embedding_similarity_dot(a_emb, b_emb) ==
    <<a_emb[1] * b_emb[1] + a_emb[2] * b_emb[2], 1>>

\* _embedding_similarity
embedding_similarity(a_emb, b_emb) ==
    LET denom == Norm(a_emb) * Norm(b_emb)
    IN IF denom = 0 THEN <<0, 1>>
       ELSE <<a_emb[1] * b_emb[1] + a_emb[2] * b_emb[2], denom>>

FracGt(x, y) == x[1] * y[2] > y[1] * x[2]

\* float(round(sim, 3)) in thousandths, for sim >= 0.
Round3(x) == RoundDiv(1000 * x[1], x[2])

\* One step of the inner loop of pass 1: the candidate kept after comparing
\* the normalized resume skill r with the normalized JD skill jj at index j.
Pass1Candidate(r, jj, j, best) ==
    IF r = jj THEN [found |-> TRUE, j |-> j, sim |-> <<1, 1>>]
    ELSE IF FracGt(simple_token_overlap(r, jj), best.sim)
         THEN [found |-> TRUE, j |-> j, sim |-> simple_token_overlap(r, jj)]
         ELSE best

\* The inner loop of pass 1 for the normalized resume skill r, from JD index
\* j on: [found, j, sim] of the best candidate, stopping at an exact match.
RECURSIVE Pass1Best(_, _, _, _, _)
Pass1Best(r, jnorm, matched_j_idx, j, best) ==
    IF j > Len(jnorm) THEN best
    ELSE IF j \in matched_j_idx
         THEN Pass1Best(r, jnorm, matched_j_idx, j + 1, best)
         ELSE IF r = jnorm[j]
              THEN Pass1Candidate(r, jnorm[j], j, best)
              ELSE Pass1Best(r, jnorm, matched_j_idx, j + 1,
                             Pass1Candidate(r, jnorm[j], j, best))

\* "if best_j and best_sim > 0.6": the pair is appended and the JD index
\* marked.  A pair also records jd_entry, the index of the JD entry it was
\* made from.
Pass1Accept(resume_skill, jnorm, best, st) ==
    IF best.found /\ 5 * best.sim[1] > 3 * best.sim[2]
    THEN [matched |-> Append(st.matched,
              [resume_skill |-> resume_skill,
               jd_skill |-> jnorm[best.j],
               similarity |-> Round3(best.sim),
               jd_entry |-> best.j]),
          matched_j_idx |-> st.matched_j_idx \cup {best.j}]
    ELSE st

NoCandidate == [found |-> FALSE, j |-> 0, sim |-> <<0, 1>>]

\* Pass 1, from resume index i on.  st = [matched, matched_j_idx].
RECURSIVE Pass1(_, _, _, _, _)
Pass1(rskills, rnorm, jnorm, i, st) ==
    IF i > Len(rskills) THEN st
    ELSE Pass1(rskills, rnorm, jnorm, i + 1,
               Pass1Accept(rskills[i], jnorm,
                   Pass1Best(rnorm[i], jnorm, st.matched_j_idx, 1,
                             NoCandidate),
                   st))

\* One step of the inner loop of pass 2.
Pass2Candidate(sim, j, best) ==
    IF FracGt(sim, best.sim) THEN [found |-> TRUE, j |-> j, sim |-> sim]
    ELSE best

\* The inner loop of pass 2 for one embedding r_emb over unmatched_j (a
\* sequence of JD indices), from position k on.
RECURSIVE Pass2Best(_, _, _, _, _, _)
Pass2Best(r_emb, jskills, unmatched_j, embed, k, best) ==
    IF k > Len(unmatched_j) THEN best
    ELSE Pass2Best(r_emb, jskills, unmatched_j, embed, k + 1,
             Pass2Candidate(
                 embedding_similarity(
                     r_emb, Embed(embed, jskills[unmatched_j[k]])),
                 unmatched_j[k], best))

\* jskills.index(best_j): the first index holding a value equal to best_j.
IndexOf(jskills, best) ==
    CHOOSE n \in 1..Len(jskills) :
        /\ jskills[n] = jskills[best.j]
        /\ \A m \in 1..(n - 1) : jskills[m] # jskills[best.j]

\* "if best_sim >= semantic_threshold": the pair is appended, then the JD
\* skill is looked up by value and that index marked.  When best_j is None
\* the pair is appended before jskills.index(None) raises (failed).
Pass2Accept(resume_skill, jskills, threshold, best, st) ==
    IF 100 * best.sim[1] >= threshold * best.sim[2]
    THEN IF best.found
         THEN [matched |-> Append(st.matched,
                   [resume_skill |-> resume_skill,
                    jd_skill |-> jskills[best.j],
                    similarity |-> Round3(best.sim),
                    jd_entry |-> best.j]),
               matched_j_idx |-> st.matched_j_idx
                                 \cup {IndexOf(jskills, best)},
               failed |-> FALSE]
         ELSE [matched |-> Append(st.matched,
                   [resume_skill |-> resume_skill,
                    jd_skill |-> NoneSkill,
                    similarity |-> Round3(best.sim),
                    jd_entry |-> 0]),
               matched_j_idx |-> st.matched_j_idx,
               failed |-> TRUE]
    ELSE st

\* Pass 2 over unmatched_r from position k on; an exception ends the pass in
\* the except handler.
RECURSIVE Pass2(_, _, _, _, _, _, _)
Pass2(unmatched_r, jskills, unmatched_j, embed, threshold, k, st) ==
    IF k > Len(unmatched_r) \/ st.failed THEN st
    ELSE Pass2(unmatched_r, jskills, unmatched_j, embed, threshold, k + 1,
               Pass2Accept(unmatched_r[k], jskills, threshold,
                   Pass2Best(Embed(embed, unmatched_r[k]), jskills,
                             unmatched_j, embed, 1, NoCandidate),
                   st))

\* The indices in 1..n that satisfy keep, in increasing order.
RECURSIVE IndicesWhere(_, _, _)
IndicesWhere(n, k, keep) ==
    IF k > n THEN <<>>
    ELSE (IF k \in keep THEN <<k>> ELSE <<>>) \o IndicesWhere(n, k + 1, keep)

RECURSIVE SumSimilarity(_)
SumSimilarity(matched) ==
    IF matched = <<>> THEN 0
    ELSE Head(matched).similarity + SumSimilarity(Tail(matched))

\* The resume skills that are the resume side of no pair of matched.
UnmatchedResume(rskills, matched) ==
    SelectSeq(rskills,
              LAMBDA r : \A k \in 1..Len(matched) :
                             matched[k].resume_skill # r)

\* The JD indices not in matched_j_idx, in list order.
UnmatchedJd(jskills, matched_j_idx) ==
    IndicesWhere(Len(jskills), 1, (1..Len(jskills)) \ matched_j_idx)

Normalized(skills) == [k \in 1..Len(skills) |-> normalize(skills[k])]

\* The first loop of compare_skills.
LexicalPass(rskills, jskills) ==
    Pass1(rskills, Normalized(rskills), Normalized(jskills), 1,
          [matched |-> <<>>, matched_j_idx |-> {}])

\* "if cand_texts:" and the call of embed_fn, inside the try block.
SemanticPassBody(unmatched_r, unmatched_j, jskills, embed, threshold, st) ==
    IF Len(unmatched_r) + Len(unmatched_j) = 0 THEN st
    ELSE IF embed = "raises" THEN st
    ELSE Pass2(unmatched_r, jskills, unmatched_j, embed, threshold, 1, st)

\* "if embed_fn:" and the block under it.
SemanticPass(rskills, jskills, embed, threshold, st) ==
    IF embed = "none" THEN st
    ELSE SemanticPassBody(UnmatchedResume(rskills, st.matched),
                          UnmatchedJd(jskills, st.matched_j_idx),
                          jskills, embed, threshold,
                          [matched |-> st.matched,
                           matched_j_idx |-> st.matched_j_idx,
                           failed |-> FALSE])

\* match_pct = n_match / n_total and
\* sfi = 0.7 * match_pct + 0.3 * avg_sim, rounded to 4 places.
SkillFitIndex(n_match, n_total, matched) ==
    IF Len(matched) = 0
    THEN RoundDiv(7000 * n_match, n_total)
    ELSE RoundDiv(7000 * n_match * Len(matched)
                  + 3 * SumSimilarity(matched) * n_total,
                  n_total * Len(matched))

\* The part of compare_skills after the two passes.  missing_entries holds
\* the JD indices behind missing_skills.
Summarize(rskills, jskills, matched, missing_idx) ==
    [skill_fit_index |->
         SkillFitIndex(Len(jskills) - Len(missing_idx),
                       Max(1, Len(jskills)), matched),
     match_percentage |->
         RoundDiv(10000 * (Len(jskills) - Len(missing_idx)),
                  Max(1, Len(jskills))),
     matched_skills |-> matched,
     missing_skills |->
         [k \in 1..Len(missing_idx) |-> jskills[missing_idx[k]]],
     missing_entries |-> missing_idx,
     extra_resume_skills |-> UnmatchedResume(rskills, matched)]

Assemble(rskills, jskills, st) ==
    Summarize(rskills, jskills, st.matched,
              UnmatchedJd(jskills, st.matched_j_idx))

compare_skills(resume_skills, jd_skills, embed, semantic_threshold) ==
    Assemble(resume_skills, jd_skills,
             SemanticPass(resume_skills, jd_skills, embed,
                          semantic_threshold,
                          LexicalPass(resume_skills, jd_skills)))

SkillIdle ==
    /\ cs_pc = "idle"
    /\ cs_in = "none"
    /\ cs_out = "none"

\* The calls offered: every combination over SkillPool, and the lists over
\* TokenSkillPool with embed_fn=None and the default threshold.
SkillCalls ==
    [resume_skills : SkillLists, jd_skills : SkillLists,
     embed_fn : EmbedChoices, semantic_threshold : ThresholdChoices]
    \cup
    [resume_skills : TokenSkillLists, jd_skills : TokenSkillLists,
     embed_fn : {"none"}, semantic_threshold : {75}]

SkillInit ==
    /\ cs_in \in SkillCalls
    /\ cs_pc = "called"
    /\ cs_out = "none"

CallCompareSkills ==
    /\ cs_pc = "called"
    /\ cs_pc' = "returned"
    /\ cs_out' = compare_skills(cs_in.resume_skills, cs_in.jd_skills,
                                cs_in.embed_fn, cs_in.semantic_threshold)
    /\ UNCHANGED cs_in

(***************************************************************************)
(* Part IV: the save step of OrchestrationEngine.run                       *)
(* (backend/orchestration.py, from "if save_result:" to "return result")   *)
(* for runs of one engine.  The block has no await, so the save steps of   *)
(* the runs are atomic and happen in any order.  Only whether two runs     *)
(* read the same second matters, so seconds are numbered from 1.           *)
(***************************************************************************)
Seconds == 1..NumRuns

\* A file that does not exist; otherwise a file is [run, complete]: the run
\* whose record it holds and whether json.dump wrote all of it.
NoFile == [run |-> 0, complete |-> FALSE]

\* int(time.time()) as read at the start of each run: the runs, in some
\* order of their starts, read the seconds 1, 2, ... without a gap, two or
\* more of them reading the same second when they start within it.
ClockReadings ==
    {t \in [Runs -> Seconds] :
        \A s \in Seconds :
            (\E r \in Runs : t[r] = s) =>
                \A u \in 1..s : \E r \in Runs : t[r] = u}

\* The result dicts offered to the save step: a run whose stages all
\* returned, a run whose JD analysis, matching, optimization and scoring
\* all degraded, and a run whose resume parse raised.
ResultsAtSave ==
    { ("meta" :> "meta") @@ ("resume" :> "parsed_resume")
        @@ ("jd" :> "parsed_jd") @@ ("matcher" :> "match_result")
        @@ ("optimized_resume" :> "optimized") @@ ("ats" :> "score_result")
        @@ ("status" :> "success"),
      ("meta" :> "meta") @@ ("resume" :> "parsed_resume")
        @@ ("jd" :> "jd_default_error")
        @@ ("matcher" :> "matcher_default_error")
        @@ ("optimized_resume" :> "optimizer_error_dict")
        @@ ("ats" :> "ats_default_error") @@ ("status" :> "success"),
      ("meta" :> "meta") @@ ("status" :> "error")
        @@ ("error" :> "message") }

\* result["meta"] when the save step is reached: started_at and
\* target_role from the start of the run, elapsed_s from either path.
MetaAtSave == {"started_at", "target_role", "elapsed_s"}

\* The file after run r tried to write it.
WriteFile(file, r, write) ==
    IF write = "open_raises" THEN file
    ELSE [run |-> r, complete |-> write = "written"]

StoreIdle ==
    /\ save_pc = [r \in Runs |-> "idle"]
    /\ started_at = [r \in Runs |-> 0]
    /\ save_record = [r \in Runs |-> <<>>]
    /\ save_meta = [r \in Runs |-> {}]
    /\ save_call = [r \in Runs |-> "unset"]
    /\ store = [t \in Seconds |-> NoFile]

\* Every run has reached its save step.
StoreInit ==
    /\ save_pc = [r \in Runs |-> "saving"]
    /\ started_at \in ClockReadings
    /\ save_record \in [Runs -> ResultsAtSave]
    /\ save_meta = [r \in Runs |-> MetaAtSave]
    /\ save_call = [r \in Runs |-> "unset"]
    /\ store = [t \in Seconds |-> NoFile]

\* if save_result: try to write resumate_result_<int(t0)>.json and record
\* result_path; a failed write is logged.  Then return result.
SaveResult(r) ==
    /\ save_pc[r] = "saving"
    /\ \E save_result \in BOOLEAN, write \in WriteOutcomes :
         /\ store' = IF save_result
                     THEN [store EXCEPT ![started_at[r]] =
                              WriteFile(@, r, write)]
                     ELSE store
         /\ save_meta' = [save_meta EXCEPT ![r] =
                             SaveMeta(@, save_result, write)]
         /\ save_call' = [save_call EXCEPT ![r] =
                             IF save_result THEN write ELSE "disabled"]
    /\ save_pc' = [save_pc EXCEPT ![r] = "returned"]
    /\ UNCHANGED <<started_at, save_record>>

(***************************************************************************)
(* Part V: semantic_similarity_resume_jd                                   *)
(* (backend/tools/semantic_matcher.py).  A text is a sequence of           *)
(* one-character strings.  A cosine is kept exact as a fraction in lowest  *)
(* terms <<numerator, denominator>>; the calls offered are those whose     *)
(* norm products are perfect squares, so that every cosine is rational.    *)
(* overall_pct is an integer in hundredths of a point.                     *)
(***************************************************************************)
IsWhitespace(c) == c \in {" ", "\t", "\n", "\r"}

\* str.strip()
RECURSIVE StripLeft(_)
StripLeft(x) ==
    IF x = <<>> THEN x
    ELSE IF IsWhitespace(Head(x)) THEN StripLeft(Tail(x)) ELSE x

RECURSIVE StripRight(_)
StripRight(x) ==
    IF x = <<>> THEN x
    ELSE IF IsWhitespace(x[Len(x)])
         THEN StripRight(SubSeq(x, 1, Len(x) - 1)) ELSE x

strip(x) == StripRight(StripLeft(x))

NonEmpty(x) == x # <<>>

RECURSIVE SkipNewlines(_)
SkipNewlines(x) ==
    IF x # <<>> /\ Head(x) = "\n" THEN SkipNewlines(Tail(x)) ELSE x

RECURSIVE SkipWhitespace(_)
SkipWhitespace(x) ==
    IF x # <<>> /\ IsWhitespace(Head(x)) THEN SkipWhitespace(Tail(x)) ELSE x

\* x starts with a match of \n{2,}
AtNewlines(x) == Len(x) >= 2 /\ x[1] = "\n" /\ x[2] = "\n"

\* x starts with a match of \r\n{2,}
AtCrNewlines(x) == Len(x) >= 3 /\ x[1] = "\r" /\ x[2] = "\n" /\ x[3] = "\n"

\* re.split(r"\n{2,}|\r\n{2,}", text), cur being the piece under way.
RECURSIVE SplitParagraphs(_, _)
SplitParagraphs(x, cur) ==
    IF x = <<>> THEN <<cur>>
    ELSE IF AtNewlines(x)
         THEN <<cur>> \o SplitParagraphs(SkipNewlines(x), <<>>)
    ELSE IF AtCrNewlines(x)
         THEN <<cur>> \o SplitParagraphs(SkipNewlines(Tail(x)), <<>>)
    ELSE SplitParagraphs(Tail(x), Append(cur, Head(x)))

SentenceEnd(c) == c \in {".", "?", "!"}

\* re.split(r"[.?!]\s+", text), cur being the piece under way.
RECURSIVE SplitSentences(_, _)
SplitSentences(x, cur) ==
    IF x = <<>> THEN <<cur>>
    ELSE IF Len(x) >= 2 /\ SentenceEnd(x[1]) /\ IsWhitespace(x[2])
         THEN <<cur>> \o SplitSentences(SkipWhitespace(Tail(x)), <<>>)
    ELSE SplitSentences(Tail(x), Append(cur, Head(x)))

\* The same boundaries with the closing punctuation kept in the sentence.
RECURSIVE SplitKeepingEnd(_, _)
SplitKeepingEnd(x, cur) ==
    IF x = <<>> THEN <<cur>>
    ELSE IF Len(x) >= 2 /\ SentenceEnd(x[1]) /\ IsWhitespace(x[2])
         THEN <<Append(cur, x[1])>>
              \o SplitKeepingEnd(SkipWhitespace(Tail(x)), <<>>)
    ELSE SplitKeepingEnd(Tail(x), Append(cur, Head(x)))

\* nltk.sent_tokenize(text) with the punkt data installed: no sentence for
\* a text without a visible character; otherwise the sentences of the
\* right-stripped text, cut after closing punctuation followed by
\* whitespace (punkt's handling of abbreviations is left out).
sent_tokenize(text) ==
    IF strip(text) = <<>> THEN <<>>
    ELSE SplitKeepingEnd(StripRight(text), <<>>)

\* What "import nltk; nltk.sent_tokenize" does in the environment: it
\* works, or raises LookupError because the punkt data is not installed.
NltkChoices == {"punkt", "lookup_error"}

\* " ".join(sents)
RECURSIVE JoinWithSpace(_)
JoinWithSpace(sents) ==
    IF sents = <<>> THEN <<>>
    ELSE IF Len(sents) = 1 THEN sents[1]
    ELSE sents[1] \o <<" ">> \o JoinWithSpace(Tail(sents))

SentencesPerChunk == 3

\* for i in range(0, len(sents), 3): chunks.append(" ".join(sents[i:i+3]))
RECURSIVE SentenceGroups(_)
SentenceGroups(sents) ==
    IF sents = <<>> THEN <<>>
    ELSE <<JoinWithSpace(SubSeq(sents, 1, Min(SentencesPerChunk, Len(sents))))>>
         \o SentenceGroups(SubSeq(sents, SentencesPerChunk + 1, Len(sents)))

\* parts = [p.strip() for p in parts if p.strip()]
StrippedParts(pieces) ==
    SelectSeq([k \in 1..Len(pieces) |-> strip(pieces[k])], NonEmpty)

\* The fallback branch of _chunk_text_to_paragraphs.
Sentences(text, nltk) ==
    IF nltk = "punkt" THEN sent_tokenize(text) ELSE SplitSentences(text, <<>>)

OrWholeText(chunks, text) == IF chunks = <<>> THEN <<text>> ELSE chunks

\* _chunk_text_to_paragraphs
chunk_text_to_paragraphs(text, nltk) ==
    IF StrippedParts(SplitParagraphs(text, <<>>)) = <<>>
    THEN OrWholeText(SentenceGroups(Sentences(text, nltk)), text)
    ELSE StrippedParts(SplitParagraphs(text, <<>>))

\* len(p.split()), inword telling whether the previous character was part
\* of a word.
RECURSIVE CountWords(_, _)
CountWords(x, inword) ==
    IF x = <<>> THEN 0
    ELSE IF IsWhitespace(Head(x)) THEN CountWords(Tail(x), FALSE)
    ELSE (IF inword THEN 0 ELSE 1) + CountWords(Tail(x), TRUE)

\* ord(ch) % 97
Ord97(c) ==
    IF c = "a" THEN 0 ELSE IF c = "b" THEN 1 ELSE IF c = "c" THEN 2
    ELSE IF c = "d" THEN 3 ELSE IF c = "e" THEN 4
    ELSE IF c = "\n" THEN 10 ELSE IF c = "\r" THEN 13
    ELSE IF c = " " THEN 32 ELSE IF c = "!" THEN 33
    ELSE IF c = "." THEN 46 ELSE 63

HashChars == 200

HashDim == 384

\* The deterministic hash vector of a text of fewer than HashDim
\* characters: vec[i % 384] += ord(ch) % 97 over t[:200].  The trailing
\* zeros of the vector are left out.
HashEmbedding(t) ==
    [i \in 1..Min(Len(t), HashChars) |-> Ord97(t[i])]

\* The embedding a backend (embed_fn or sentence-transformers) gives a
\* chunk; the one of the model goes by the first character of the chunk.
BackendEmbedding(t) ==
    IF t = <<>> THEN <<0, 0, 0, 0>>
    ELSE IF t[1] = "a" THEN <<1, 0, 0, 0>>
    ELSE IF t[1] = "b" THEN <<0, 0, 0, 1>>
    ELSE IF t[1] = "c" THEN <<2, 4, 2, 1>>
    ELSE IF t[1] = "d" THEN <<0, 0, 3, 4>>
    ELSE IF t[1] = "e" THEN <<0 - 1, 0, 0, 0>>
    ELSE <<0, 0, 0, 0>>

\* embed_fn and the environment offered to the call: an embed_fn, no
\* embed_fn with sentence-transformers installed, the same with encode()
\* raising, and no embed_fn without sentence-transformers.
BackendChoices == {"embed_fn", "sentence_transformers", "encode_raises", "none"}

\* _get_embeddings_for_texts, for one text of the list.
get_embedding_for_text(t, backend) ==
    IF backend \in {"embed_fn", "sentence_transformers"}
    THEN BackendEmbedding(t)
    ELSE HashEmbedding(t)

\* np.dot of two vectors from index i on, the shorter one continued with
\* zeros.
RECURSIVE DotFrom(_, _, _)
DotFrom(a, b, i) ==
    IF i > Len(a) \/ i > Len(b) THEN 0
    ELSE a[i] * b[i] + DotFrom(a, b, i + 1)

Dot(a, b) == DotFrom(a, b, 1)

RECURSIVE Gcd(_, _)
Gcd(a, b) == IF b = 0 THEN a ELSE Gcd(b, a % b)

\* The fraction x in lowest terms.
Reduce(x) ==
    <<x[1] \div Gcd(Abs(x[1]), x[2]), x[2] \div Gcd(Abs(x[1]), x[2])>>

\* The whole square root of n, which is at most bound.
Root(n, bound) == CHOOSE k \in 0..bound : k * k = n

\* np.linalg.norm(a) * np.linalg.norm(b), for vectors whose norms have a
\* whole product (which is at most the larger squared norm).
NormProduct(a, b) == Root(Dot(a, a) * Dot(b, b), Max(Dot(a, a), Dot(b, b)))

\* _cosine
cosine(a, b) ==
    IF NormProduct(a, b) = 0 THEN <<0, 1>>
    ELSE Reduce(<<Dot(a, b), NormProduct(a, b)>>)

NoChunk == <<"None">>

\* The inner loop of semantic_similarity_resume_jd from JD chunk j on.
RECURSIVE BestMatch(_, _, _, _, _)
BestMatch(r_emb, j_embs, jd_chunks, j, best) ==
    IF j > Len(j_embs) THEN best
    ELSE BestMatch(r_emb, j_embs, jd_chunks, j + 1,
                   IF FracGt(cosine(r_emb, j_embs[j]), best.score)
                   THEN [score |-> cosine(r_emb, j_embs[j]),
                         best_matching_jd_chunk |-> jd_chunks[j]]
                   ELSE best)

NoMatch == [score |-> <<0, 1>>, best_matching_jd_chunk |-> NoChunk]

Embeddings(chunks, backend) ==
    [k \in 1..Len(chunks) |-> get_embedding_for_text(chunks[k], backend)]

ParagraphScore(r, best) ==
    [paragraph |-> r, score |-> best.score,
     best_matching_jd_chunk |-> best.best_matching_jd_chunk]

ParagraphScores(resume_chunks, jd_chunks, backend) ==
    [i \in 1..Len(resume_chunks) |->
        ParagraphScore(resume_chunks[i],
                       BestMatch(get_embedding_for_text(resume_chunks[i], backend),
                                 Embeddings(jd_chunks, backend),
                                 jd_chunks, 1, NoMatch))]

ChunkWeights_unweighted(resume_chunks) ==
    [i \in 1..Len(resume_chunks) |-> 1]

\* weights = [max(1, len(p.split())) for p in resume_chunks]
ChunkWeights(resume_chunks) ==
    [i \in 1..Len(resume_chunks) |-> Max(1, CountWords(resume_chunks[i], FALSE))]

FracAdd(x, y) == Reduce(<<x[1] * y[2] + y[1] * x[2], x[2] * y[2]>>)

\* sum(s * w for s, w in zip(sums, weights)), from chunk i on.
RECURSIVE WeightedSum(_, _, _)
WeightedSum(scores, weights, i) ==
    IF i > Len(scores) THEN <<0, 1>>
    ELSE FracAdd(Reduce(<<scores[i].score[1] * weights[i], scores[i].score[2]>>),
                 WeightedSum(scores, weights, i + 1))

RECURSIVE SumSeq(_, _)
SumSeq(s, i) == IF i > Len(s) THEN 0 ELSE s[i] + SumSeq(s, i + 1)

\* overall = (weighted_sum / sum(weights)) if weights else 0.0
Overall(scores, weights) ==
    IF weights = <<>> THEN <<0, 1>>
    ELSE Reduce(<<WeightedSum(scores, weights, 1)[1],
                  WeightedSum(scores, weights, 1)[2] * SumSeq(weights, 1)>>)

SemanticResult(resume_chunks, jd_chunks, scores) ==
    [overall_score |-> Overall(scores, ChunkWeights(resume_chunks)),
     overall_pct |-> RoundDiv(10000 * Overall(scores, ChunkWeights(resume_chunks))[1],
                              Overall(scores, ChunkWeights(resume_chunks))[2]),
     paragraph_scores |-> scores,
     resume_chunks |-> resume_chunks,
     jd_chunks |-> jd_chunks]

SimilarityOfChunks(resume_chunks, jd_chunks, backend) ==
    SemanticResult(resume_chunks, jd_chunks,
                   ParagraphScores(resume_chunks, jd_chunks, backend))

\* semantic_similarity_resume_jd
semantic_similarity_resume_jd(resume_text, jd_text, backend, nltk) ==
    SimilarityOfChunks(chunk_text_to_paragraphs(resume_text, nltk),
                       chunk_text_to_paragraphs(jd_text, nltk), backend)

\* n copies of the word w separated by single spaces.
RECURSIVE Words(_, _)
Words(w, n) == IF n <= 1 THEN <<w>> ELSE <<w, " ">> \o Words(w, n - 1)

BlankLine == <<"\n", "\n">>

\* The texts offered with an embedding backend:
\*   "a a a a a\n\nb b ... b" (5 and 15 words), "c\n\nd", "a", "e b", "",
\*   " \n", "a. b. c. d", "a b\r\n\r\nc", "c\n\n\nd\n", "a\r\n\nb".
SemanticTexts ==
    { Words("a", 5) \o BlankLine \o Words("b", 15),
      <<"c", "\n", "\n", "d">>,
      <<"a">>,
      <<"e", " ", "b">>,
      <<>>,
      <<" ", "\n">>,
      <<"a", ".", " ", "b", ".", " ", "c", ".", " ", "d">>,
      <<"a", " ", "b", "\r", "\n", "\r", "\n", "c">>,
      <<"c", "\n", "\n", "\n", "d", "\n">>,
      <<"a", "\r", "\n", "\n", "b">> }

\* The texts offered in any pairing with the hash fallback: "", "a", "b",
\* "c", "b\n\nc", "a\n\nb".
HashTexts ==
    { <<>>, <<"a">>, <<"b">>, <<"c">>,
      <<"b", "\n", "\n", "c">>, <<"a", "\n", "\n", "b">> }

\* The texts offered as both resume and JD with the hash fallback: " \n",
\* "b c", "b c\n\nc b", "b. c! d".
HashSelfTexts ==
    { <<" ", "\n">>, <<"b", " ", "c">>,
      <<"b", " ", "c", "\n", "\n", "c", " ", "b">>,
      <<"b", ".", " ", "c", "!", " ", "d">> }

SemanticCalls ==
    [resume_text : SemanticTexts, jd_text : SemanticTexts,
     backend : {"embed_fn", "sentence_transformers"}, nltk : NltkChoices]
    \cup
    [resume_text : HashTexts, jd_text : HashTexts,
     backend : {"encode_raises", "none"}, nltk : NltkChoices]
    \cup
    { [resume_text |-> t, jd_text |-> t, backend |-> b, nltk |-> n] :
        t \in HashSelfTexts, b \in {"encode_raises", "none"}, n \in NltkChoices }

SemanticIdle ==
    /\ sm_pc = "idle"
    /\ sm_in = "none"
    /\ sm_out = "none"

SemanticInit ==
    /\ sm_in \in SemanticCalls
    /\ sm_pc = "called"
    /\ sm_out = "none"

CallSemanticSimilarity ==
    /\ sm_pc = "called"
    /\ sm_pc' = "returned"
    /\ sm_out' = semantic_similarity_resume_jd(sm_in.resume_text, sm_in.jd_text,
                                               sm_in.backend, sm_in.nltk)
    /\ UNCHANGED sm_in

(***************************************************************************)
(* Part VI: the embedding cache of one EmbeddingEngine                     *)
(* (backend/utils/embeddings.py) used by several threads.  A thread runs   *)
(* get_embedding or clear_cache; between the cache test, the cache read    *)
(* and the cache write of get_embedding the other threads can run.  A      *)
(* vector is named by the model that produced it.                          *)
(***************************************************************************)
NumThreads == 2

Threads == 1..NumThreads

\* Calls a thread makes at most.
MaxCalls == 2

\* The texts asked for: "a", "b" and " ".
CacheTexts == { <<"a">>, <<"b">>, <<" ">> }

NotCached == "not_cached"

\* What the call of the OpenAI client, and of the local model, does.
ModelOutcomes == {"returns", "raises"}

\* A call of get_embedding or clear_cache by a thread that runs neither.
\* get_embedding returns zeros for a blank text and otherwise tests
\* "text in self._embedding_cache".
BeginGetEmbedding(t, text) ==
    /\ th_pc[t] = "idle"
    /\ th_calls[t] < MaxCalls
    /\ th_calls' = [th_calls EXCEPT ![t] = @ + 1]
    /\ th_text' = [th_text EXCEPT ![t] = text]
    /\ IF strip(text) = <<>>
       THEN /\ th_pc' = [th_pc EXCEPT ![t] = "idle"]
            /\ th_ret' = [th_ret EXCEPT ![t] = "zeros"]
       ELSE /\ th_pc' = [th_pc EXCEPT ![t] =
                           IF emb_cache[text] # NotCached THEN "hit" ELSE "miss"]
            /\ th_ret' = [th_ret EXCEPT ![t] = "none"]
    /\ UNCHANGED <<emb_cache, emb_models>>
    /\ UNCHANGED notCacheVars

\* return self._embedding_cache[text]
ReadCache(t) ==
    /\ th_pc[t] = "hit"
    /\ th_pc' = [th_pc EXCEPT ![t] = "idle"]
    /\ th_ret' = [th_ret EXCEPT ![t] =
                    IF emb_cache[th_text[t]] # NotCached
                    THEN emb_cache[th_text[t]] ELSE "KeyError"]
    /\ UNCHANGED <<emb_cache, emb_models, th_text, th_calls>>
    /\ UNCHANGED notCacheVars

\* self._embedding_cache[text] = embedding
Store(cache, text, vector) == [cache EXCEPT ![text] = vector]

\* The OpenAI call of a thread that missed the cache returned: the vector
\* is stored and returned.
OpenAIReturns(t) ==
    /\ th_pc[t] = "miss"
    /\ emb_models.openai_client
    /\ emb_cache' = Store(emb_cache, th_text[t], "v_openai")
    /\ th_ret' = [th_ret EXCEPT ![t] = "v_openai"]
    /\ th_pc' = [th_pc EXCEPT ![t] = "idle"]
    /\ UNCHANGED <<emb_models, th_text, th_calls>>
    /\ UNCHANGED notCacheVars

\* There is no OpenAI client, or its call raised: the local model encodes
\* the text (the vector is stored and returned) or raises, and without a
\* local model zeros are returned.
LocalFallback(t) ==
    /\ th_pc[t] = "miss"
    /\ th_pc' = [th_pc EXCEPT ![t] = "idle"]
    /\ IF emb_models.local_model
       THEN \E encode \in ModelOutcomes :
              IF encode = "returns"
              THEN /\ emb_cache' = Store(emb_cache, th_text[t], "v_local")
                   /\ th_ret' = [th_ret EXCEPT ![t] = "v_local"]
              ELSE /\ th_ret' = [th_ret EXCEPT ![t] = "raised"]
                   /\ UNCHANGED emb_cache
       ELSE /\ th_ret' = [th_ret EXCEPT ![t] = "zeros"]
            /\ UNCHANGED emb_cache
    /\ UNCHANGED <<emb_models, th_text, th_calls>>
    /\ UNCHANGED notCacheVars

\* clear_cache
ClearCache(t) ==
    /\ th_pc[t] = "idle"
    /\ th_calls[t] < MaxCalls
    /\ th_calls' = [th_calls EXCEPT ![t] = @ + 1]
    /\ emb_cache' = [x \in CacheTexts |-> NotCached]
    /\ th_ret' = [th_ret EXCEPT ![t] = "none"]
    /\ UNCHANGED <<emb_models, th_pc, th_text>>
    /\ UNCHANGED notCacheVars

CacheIdle ==
    /\ emb_cache = [x \in CacheTexts |-> NotCached]
    /\ emb_models = [openai_client |-> FALSE, local_model |-> FALSE]
    /\ th_pc = [t \in Threads |-> "unused"]
    /\ th_text = [t \in Threads |-> <<>>]
    /\ th_ret = [t \in Threads |-> "none"]
    /\ th_calls = [t \in Threads |-> 0]

\* __init__: an empty cache, and the models _init_models could load.
CacheInit ==
    /\ emb_cache = [x \in CacheTexts |-> NotCached]
    /\ emb_models \in [openai_client : BOOLEAN, local_model : BOOLEAN]
    /\ th_pc = [t \in Threads |-> "idle"]
    /\ th_text = [t \in Threads |-> <<>>]
    /\ th_ret = [t \in Threads |-> "none"]
    /\ th_calls = [t \in Threads |-> 0]

(***************************************************************************)
(* Part VII: AnalyticsEngine (backend/models/analytics_engine.py).         *)
(* The semantic_score and keyword_overlap given to ats_score are integers *)
(* in tenths of a point (755 is 75.5), weights are integers in hundredths, *)
(* and a returned score is an exact fraction <<numerator, denominator>>.   *)
(***************************************************************************)
UpperCase ==
    <<"A", "B", "C", "D", "E", "F", "G", "H", "I", "J", "K", "L", "M",
      "N", "O", "P", "Q", "R", "S", "T", "U", "V", "W", "X", "Y", "Z">>

LowerCase ==
    <<"a", "b", "c", "d", "e", "f", "g", "h", "i", "j", "k", "l", "m",
      "n", "o", "p", "q", "r", "s", "t", "u", "v", "w", "x", "y", "z">>

Digits == {"0", "1", "2", "3", "4", "5", "6", "7", "8", "9"}

ToLower(c) ==
    IF \E i \in 1..Len(UpperCase) : UpperCase[i] = c
    THEN LowerCase[CHOOSE i \in 1..Len(UpperCase) : UpperCase[i] = c]
    ELSE c

\* str.lower()
lower(x) == [k \in 1..Len(x) |-> ToLower(x[k])]

\* \w, for the characters of a lowered text.
IsWordChar(c) ==
    \/ \E i \in 1..Len(LowerCase) : LowerCase[i] = c
    \/ c \in Digits
    \/ c = "_"

\* [a-z0-9\+\#\.\-]
InTokenClass(c) ==
    \/ \E i \in 1..Len(LowerCase) : LowerCase[i] = c
    \/ c \in Digits
    \/ c \in {"+", "#", ".", "-"}

WordCharAt(x, i) == i >= 1 /\ i <= Len(x) /\ IsWordChar(x[i])

\* \b holds between x[i - 1] and x[i].
WordBoundary(x, i) == WordCharAt(x, i - 1) # WordCharAt(x, i)

\* The last index of the run of token characters that starts at i.
RECURSIVE RunEnd(_, _)
RunEnd(x, i) ==
    IF i < Len(x) /\ InTokenClass(x[i + 1]) THEN RunEnd(x, i + 1) ELSE i

\* The last index e in i..last with \b after x[e], or 0: where the greedy
\* [a-z0-9\+\#\.\-]+ followed by \b ends after backtracking.
RECURSIVE TokenEnd(_, _, _)
TokenEnd(x, i, last) ==
    IF last < i THEN 0
    ELSE IF WordBoundary(x, last + 1) THEN last
    ELSE TokenEnd(x, i, last - 1)

\* _TOKENIZE_PATTERN.findall(x) from index i on.
RECURSIVE FindTokens(_, _)
FindTokens(x, i) ==
    IF i > Len(x) THEN <<>>
    ELSE IF InTokenClass(x[i]) /\ WordBoundary(x, i)
            /\ TokenEnd(x, i, RunEnd(x, i)) > 0
         THEN <<SubSeq(x, i, TokenEnd(x, i, RunEnd(x, i)))>>
              \o FindTokens(x, TokenEnd(x, i, RunEnd(x, i)) + 1)
    ELSE FindTokens(x, i + 1)

\* _tokenize
tokenize(s) == FindTokens(lower(s), 1)

SeqToSet(s) == {s[k] : k \in 1..Len(s)}

NoSkills == <<"None">>

\* keyword_overlap_score
keyword_overlap_score(resume_text, jd_skills) ==
    IF jd_skills = NoSkills \/ jd_skills = <<>> THEN <<0, 1>>
    ELSE <<100 * Cardinality(SeqToSet(tokenize(resume_text))
                             \cap {lower(s) : s \in SeqToSet(jd_skills)}),
           Cardinality({lower(s) : s \in SeqToSet(jd_skills)})>>

\* re.search(r"\b(w1|w2|...)\b", x, re.I) for the words of the set.
SearchWord(x, words) ==
    \E w \in words : \E i \in 1..Len(x) :
        /\ i + Len(w) - 1 <= Len(x)
        /\ SubSeq(lower(x), i, i + Len(w) - 1) = w
        /\ WordBoundary(lower(x), i)
        /\ WordBoundary(lower(x), i + Len(w))

\* _CONTACT_PATTERN: contact, email, phone, address
ContactWords ==
    { <<"c", "o", "n", "t", "a", "c", "t">>,
      <<"e", "m", "a", "i", "l">>,
      <<"p", "h", "o", "n", "e">>,
      <<"a", "d", "d", "r", "e", "s", "s">> }

\* _SECTION_PATTERN: experience, education, skills, projects
SectionWords ==
    { <<"e", "x", "p", "e", "r", "i", "e", "n", "c", "e">>,
      <<"e", "d", "u", "c", "a", "t", "i", "o", "n">>,
      <<"s", "k", "i", "l", "l", "s">>,
      <<"p", "r", "o", "j", "e", "c", "t", "s">> }

\* The bullet characters of _BULLET_PATTERN that the texts offered can
\* hold ("-" and "*").
IsBulletChar(c) == c \in {"-", "*"}

\* The first index from i on that holds no whitespace (Len(x) + 1 if none).
RECURSIVE SkipSpaceFrom(_, _)
SkipSpaceFrom(x, i) ==
    IF i <= Len(x) /\ IsWhitespace(x[i]) THEN SkipSpaceFrom(x, i + 1) ELSE i

\* The index after the match of \n\s*[-*]\s+ that starts at i, or 0.
BulletMatchEnd(x, i) ==
    IF /\ x[i] = "\n"
       /\ SkipSpaceFrom(x, i + 1) < Len(x)
       /\ IsBulletChar(x[SkipSpaceFrom(x, i + 1)])
       /\ IsWhitespace(x[SkipSpaceFrom(x, i + 1) + 1])
    THEN SkipSpaceFrom(x, SkipSpaceFrom(x, i + 1) + 1)
    ELSE 0

\* len(_BULLET_PATTERN.findall(x)) from index i on.
RECURSIVE CountBullets(_, _)
CountBullets(x, i) ==
    IF i > Len(x) THEN 0
    ELSE IF BulletMatchEnd(x, i) > 0
         THEN 1 + CountBullets(x, BulletMatchEnd(x, i))
    ELSE CountBullets(x, i + 1)

ContactPoints == 25

SectionPoints == 25

BulletPoints == 2

MaxBullets == 10

\* structure_score, in points
structure_score(resume_text) ==
    Min((IF SearchWord(resume_text, ContactWords) THEN ContactPoints ELSE 0)
        + Min(CountBullets(resume_text, 1), MaxBullets) * BulletPoints
        + (IF SearchWord(resume_text, SectionWords) THEN SectionPoints ELSE 0),
        100)

\* _ACTION_VERBS
ActionVerbs ==
    << <<"l", "e", "d">>,
       <<"i", "m", "p", "l", "e", "m", "e", "n", "t", "e", "d">>,
       <<"b", "u", "i", "l", "t">>,
       <<"d", "e", "s", "i", "g", "n", "e", "d">>,
       <<"o", "p", "t", "i", "m", "i", "z", "e", "d">>,
       <<"i", "m", "p", "r", "o", "v", "e", "d">>,
       <<"r", "e", "d", "u", "c", "e", "d">>,
       <<"i", "n", "c", "r", "e", "a", "s", "e", "d">>,
       <<"a", "c", "h", "i", "e", "v", "e", "d">>,
       <<"d", "e", "l", "i", "v", "e", "r", "e", "d">>,
       <<"m", "a", "n", "a", "g", "e", "d">>,
       <<"c", "r", "e", "a", "t", "e", "d">>,
       <<"l", "a", "u", "n", "c", "h", "e", "d">>,
       <<"o", "r", "c", "h", "e", "s", "t", "r", "a", "t", "e", "d">>,
       <<"e", "n", "g", "i", "n", "e", "e", "r", "e", "d">>,
       <<"d", "e", "v", "e", "l", "o", "p", "e", "d">>,
       <<"s", "p", "e", "a", "r", "h", "e", "a", "d", "e", "d">> >>

\* x.count(w) from index i on.
RECURSIVE CountSubstring(_, _, _)
CountSubstring(x, w, i) ==
    IF i + Len(w) - 1 > Len(x) THEN 0
    ELSE IF SubSeq(x, i, i + Len(w) - 1) = w
         THEN 1 + CountSubstring(x, w, i + Len(w))
    ELSE CountSubstring(x, w, i + 1)

\* sum(text_lower.count(verb) for verb in _ACTION_VERBS) from verb k on.
RECURSIVE VerbCount(_, _)
VerbCount(x, k) ==
    IF k > Len(ActionVerbs) THEN 0
    ELSE CountSubstring(x, ActionVerbs[k], 1) + VerbCount(x, k + 1)

PointsPerVerb == 10

action_verbs_score_uncapped(resume_text) ==
    VerbCount(lower(resume_text), 1) * PointsPerVerb

\* action_verbs_score, in points
action_verbs_score(resume_text) ==
    Min(VerbCount(lower(resume_text), 1) * PointsPerVerb, 100)

AnalyticsWeightKeys == {"semantic", "keyword", "structure", "action"}

\* _DEFAULT_WEIGHTS
AnalyticsDefaultWeights ==
    [semantic |-> 35, keyword |-> 30, structure |-> 20, action |-> 15]

NoWeights == [k \in AnalyticsWeightKeys |-> 0]

\* weights = _DEFAULT_WEIGHTS.copy() if weights is None
EffectiveWeights(weights) ==
    IF weights.given THEN weights.w ELSE AnalyticsDefaultWeights

\* The weighted combination raw, in units of 0.00001.
RawScore(semantic_score, keyword_overlap, struct_score, action_score, w) ==
    semantic_score * w.semantic + keyword_overlap * w.keyword
    + 10 * struct_score * w.structure + 10 * action_score * w.action

\* -(raw / 0.25 - 2.0), in units of 0.00001.
Exponent(raw) == 0 - (4 * raw - 200000)

\* math.exp raises OverflowError above the logarithm of the largest float
\* (709.78271...).
ExpOverflow == 70978271


\* round(100.0 / (1.0 + exp(x)), 2) in hundredths, x being in units of 0.00001,
\* at the exponents the calls offered produce.
Logistic(x) ==
    CASE x = 0 - 399800000 -> 10000
      [] x = 0 - 1496000 -> 10000
      [] x = 0 - 1296000 -> 10000
      [] x = 0 - 1200000 -> 10000
      [] x = 0 - 1096000 -> 10000
      [] x = 0 - 1000000 -> 10000
      [] x = 0 - 896000 -> 9999
      [] x = 0 - 800000 -> 9997
      [] x = 0 - 798000 -> 9997
      [] x = 0 - 696000 -> 9991
      [] x = 0 - 600000 -> 9975
      [] x = 0 - 598000 -> 9975
      [] x = 0 - 502000 -> 9934
      [] x = 0 - 496000 -> 9930
      [] x = 0 - 400000 -> 9820
      [] x = 0 - 398000 -> 9817
      [] x = 0 - 325200 -> 9627
      [] x = 0 - 302000 -> 9535
      [] x = 0 - 296000 -> 9507
      [] x = 0 - 270000 -> 9370
      [] x = 0 - 265200 -> 9341
      [] x = 0 - 210000 -> 8909
      [] x = 0 - 205200 -> 8861
      [] x = 0 - 200000 -> 8808
      [] x = 0 - 150000 -> 8176
      [] x = 0 - 115200 -> 7599
      [] x = 0 - 102000 -> 7350
      [] x = 0 - 96000 -> 7231
      [] x = 0 - 80900 -> 6919
      [] x = 0 - 60000 -> 6457
      [] x = 0 - 55200 -> 6346
      [] x = 0 - 25700 -> 5639
      [] x = 0 - 20900 -> 5521
      [] x = 0 -> 5000
      [] x = 4800 -> 4880
      [] x = 24800 -> 4383
      [] x = 34300 -> 4151
      [] x = 39100 -> 4035
      [] x = 60000 -> 3543
      [] x = 80000 -> 3100
      [] x = 84800 -> 2999
      [] x = 94300 -> 2803
      [] x = 140000 -> 1978
      [] x = 144800 -> 1903
      [] x = 200000 -> 1192
      [] x = 502000 -> 66
      [] x = 600000 -> 25
      [] x = 1200000 -> 0


\* ats_score: the "score" of the returned dict, or the OverflowError of
\* exp().
ats_score_of(raw) ==
    IF Exponent(raw) > ExpOverflow
    THEN [raised |-> TRUE, score |-> <<0, 1>>]
    ELSE [raised |-> FALSE, score |-> <<Logistic(Exponent(raw)), 100>>]

ats_score(resume_text, semantic_score, keyword_overlap, weights) ==
    ats_score_of(RawScore(semantic_score, keyword_overlap,
                          structure_score(resume_text),
                          action_verbs_score(resume_text),
                          EffectiveWeights(weights)))


\* The resume texts offered: "x", a resume with contact, section, two
\* bullets and two verbs, "led " eleven times, "x" with eleven bullets, "",
\* "python c++ web", and two bullets sharing a newline before "handled".
AnalyticsTexts ==
    { <<"x">>,
      <<"E", "m", "a", "i", "l", ":", " ", "a", "\n", "S", "k", "i", "l",
        "l", "s", "\n", "-", " ", "l", "e", "d", " ", "b", "\n", "*", " ",
        "b", "u", "i", "l", "t", " ", "c">>,
      <<"l", "e", "d", " ", "l", "e", "d", " ", "l", "e", "d", " ", "l", "e",
        "d", " ", "l", "e", "d", " ", "l", "e", "d", " ", "l", "e", "d", " ",
        "l", "e", "d", " ", "l", "e", "d", " ", "l", "e", "d", " ", "l", "e",
        "d", " ">>,
      <<"x", "\n", "-", " ", "a", "\n", "-", " ", "a", "\n", "-", " ", "a",
        "\n", "-", " ", "a", "\n", "-", " ", "a", "\n", "-", " ", "a", "\n",
        "-", " ", "a", "\n", "-", " ", "a", "\n", "-", " ", "a", "\n", "-",
        " ", "a", "\n", "-", " ", "a">>,
      <<>>,
      <<"p", "y", "t", "h", "o", "n", " ", "c", "+", "+", " ", "w", "e", "b">>,
      <<"\n", "-", " ", "\n", "-", " ", "h", "a", "n", "d", "l", "e", "d">> }

\* The resume texts offered to ats_score.
AtsTexts ==
    { <<"x">>,
      <<"E", "m", "a", "i", "l", ":", " ", "a", "\n", "S", "k", "i", "l",
        "l", "s", "\n", "-", " ", "l", "e", "d", " ", "b", "\n", "*", " ",
        "b", "u", "i", "l", "t", " ", "c">>,
      <<>> }

\* The jd_skills offered: None, [], ["python"], ["Python", "python",
\* "C++"], ["python", "c", "web"].
JdSkillChoices ==
    { NoSkills, <<>>,
      << <<"p", "y", "t", "h", "o", "n">> >>,
      << <<"P", "y", "t", "h", "o", "n">>, <<"p", "y", "t", "h", "o", "n">>,
         <<"C", "+", "+">> >>,
      << <<"p", "y", "t", "h", "o", "n">>, <<"c">>, <<"w", "e", "b">> >> }

\* semantic_score offered to ats_score: 0, 75.5, 100, 250 and -100000.
SemanticScoreChoices == {0, 755, 1000, 2500, 0 - 1000000}

\* keyword_overlap offered to ats_score: 0, 50 and 100.
KeywordOverlapChoices == {0, 500, 1000}

\* weights offered to ats_score: None, all 1.0, and semantic -1.0 alone.
AnalyticsWeightChoices ==
    { [given |-> FALSE, w |-> NoWeights],
      [given |-> TRUE,
       w |-> [semantic |-> 100, keyword |-> 100, structure |-> 100,
              action |-> 100]],
      [given |-> TRUE,
       w |-> [semantic |-> 0 - 100, keyword |-> 0, structure |-> 0,
              action |-> 0]] }

AnalyticsCalls ==
    [method : {"keyword_overlap_score"}, resume_text : AnalyticsTexts,
     jd_skills : JdSkillChoices, semantic_score : {0}, keyword_overlap : {0},
     weights : {[given |-> FALSE, w |-> NoWeights]}]
    \cup
    [method : {"structure_score", "action_verbs_score"},
     resume_text : AnalyticsTexts, jd_skills : {NoSkills},
     semantic_score : {0}, keyword_overlap : {0},
     weights : {[given |-> FALSE, w |-> NoWeights]}]
    \cup
    [method : {"ats_score"}, resume_text : AtsTexts, jd_skills : {NoSkills},
     semantic_score : SemanticScoreChoices,
     keyword_overlap : KeywordOverlapChoices,
     weights : AnalyticsWeightChoices]

AnalyticsIdle ==
    /\ an_pc = "idle"
    /\ an_in = "none"
    /\ an_out = "none"

AnalyticsInit ==
    /\ an_in \in AnalyticsCalls
    /\ an_pc = "called"
    /\ an_out = "none"

CallKeywordOverlapScore ==
    /\ an_pc = "called"
    /\ an_in.method = "keyword_overlap_score"
    /\ an_pc' = "returned"
    /\ an_out' = [raised |-> FALSE,
                  score |-> keyword_overlap_score(an_in.resume_text,
                                                  an_in.jd_skills)]
    /\ UNCHANGED an_in
    /\ UNCHANGED notAnalyticsVars

CallStructureScore ==
    /\ an_pc = "called"
    /\ an_in.method = "structure_score"
    /\ an_pc' = "returned"
    /\ an_out' = [raised |-> FALSE,
                  score |-> <<structure_score(an_in.resume_text), 1>>]
    /\ UNCHANGED an_in
    /\ UNCHANGED notAnalyticsVars

CallActionVerbsScore ==
    /\ an_pc = "called"
    /\ an_in.method = "action_verbs_score"
    /\ an_pc' = "returned"
    /\ an_out' = [raised |-> FALSE,
                  score |-> <<action_verbs_score(an_in.resume_text), 1>>]
    /\ UNCHANGED an_in
    /\ UNCHANGED notAnalyticsVars

CallAtsScore ==
    /\ an_pc = "called"
    /\ an_in.method = "ats_score"
    /\ an_pc' = "returned"
    /\ an_out' = ats_score(an_in.resume_text, an_in.semantic_score,
                           an_in.keyword_overlap, an_in.weights)
    /\ UNCHANGED an_in
    /\ UNCHANGED notAnalyticsVars

(***************************************************************************)
(* Part VIII: compute_action_verb_ratio (backend/tools/ats_scorer.py).     *)
(* The ratio is kept exact as a fraction <<numerator, denominator>>.       *)
(***************************************************************************)
\* Sentences a text offered is made of at most.
MaxSentences == 2

\* _ACTION_VERBS of ats_scorer.py
ScorerActionVerbs ==
    { <<"a", "c", "h", "i", "e", "v", "e", "d">>,
      <<"i", "m", "p", "r", "o", "v", "e", "d">>,
      <<"r", "e", "d", "u", "c", "e", "d">>,
      <<"i", "n", "c", "r", "e", "a", "s", "e", "d">>,
      <<"d", "e", "v", "e", "l", "o", "p", "e", "d">>,
      <<"d", "e", "s", "i", "g", "n", "e", "d">>,
      <<"b", "u", "i", "l", "t">>,
      <<"l", "e", "d">>,
      <<"m", "a", "n", "a", "g", "e", "d">>,
      <<"c", "r", "e", "a", "t", "e", "d">>,
      <<"l", "a", "u", "n", "c", "h", "e", "d">>,
      <<"d", "e", "l", "i", "v", "e", "r", "e", "d">>,
      <<"o", "p", "t", "i", "m", "i", "z", "e", "d">>,
      <<"i", "m", "p", "l", "e", "m", "e", "n", "t", "e", "d">>,
      <<"e", "n", "g", "i", "n", "e", "e", "r", "e", "d">>,
      <<"s", "t", "r", "e", "a", "m", "l", "i", "n", "e", "d">>,
      <<"o", "r", "c", "h", "e", "s", "t", "r", "a", "t", "e", "d">>,
      <<"s", "p", "e", "a", "r", "h", "e", "a", "d", "e", "d">>,
      <<"c", "o", "o", "r", "d", "i", "n", "a", "t", "e", "d">>,
      <<"a", "d", "v", "i", "s", "e", "d">> }

\* [.?!\n]
IsSentenceBreak(c) == c \in {".", "?", "!", "\n"}

RECURSIVE SkipBreaks(_)
SkipBreaks(x) ==
    IF x # <<>> /\ IsSentenceBreak(Head(x)) THEN SkipBreaks(Tail(x)) ELSE x

\* re.split(r"[.?!\n]+", x), cur being the piece under way.
RECURSIVE SplitAtBreaks(_, _)
SplitAtBreaks(x, cur) ==
    IF x = <<>> THEN <<cur>>
    ELSE IF IsSentenceBreak(Head(x))
         THEN <<cur>> \o SplitAtBreaks(SkipBreaks(x), <<>>)
    ELSE SplitAtBreaks(Tail(x), Append(cur, Head(x)))

\* s.split(): the whitespace-separated words of s, as a set.
RECURSIVE SplitWords(_, _)
SplitWords(x, cur) ==
    IF x = <<>> THEN (IF cur = <<>> THEN {} ELSE {cur})
    ELSE IF IsWhitespace(Head(x))
         THEN (IF cur = <<>> THEN {} ELSE {cur}) \cup SplitWords(Tail(x), <<>>)
    ELSE SplitWords(Tail(x), Append(cur, Head(x)))

IsStripped(c) == c \in {".", ",", ";", ":", "(", ")"}

RECURSIVE StripPunctLeft(_)
StripPunctLeft(w) ==
    IF w # <<>> /\ IsStripped(Head(w)) THEN StripPunctLeft(Tail(w)) ELSE w

RECURSIVE StripPunctRight(_)
StripPunctRight(w) ==
    IF w # <<>> /\ IsStripped(w[Len(w)])
    THEN StripPunctRight(SubSeq(w, 1, Len(w) - 1)) ELSE w

\* w.lower().strip(".,;:()")
BareWord(w) == StripPunctRight(StripPunctLeft(lower(w)))

\* words & _ACTION_VERBS
HasActionVerb(s) ==
    \E w \in SplitWords(s, <<>>) : BareWord(w) \in ScorerActionVerbs

Hits(sents) == Cardinality({k \in 1..Len(sents) : HasActionVerb(sents[k])})

\* _clamp01 of the fraction x
ClampFraction(x) ==
    IF x[1] < 0 THEN <<0, 1>> ELSE IF x[1] > x[2] THEN <<1, 1>> ELSE x

RatioOf(sents) ==
    IF sents = <<>> THEN <<0, 1>>
    ELSE ClampFraction(<<Hits(sents), Len(sents)>>)

\* compute_action_verb_ratio
compute_action_verb_ratio(resume_text) ==
    RatioOf(SplitAtBreaks(resume_text, <<>>))

\* The sentence bodies the texts offered are made of: "led a", "x",
\* "Built, b", "(led)" and "misled".
SentenceBodies ==
    { <<"l", "e", "d", " ", "a">>,
      <<"x">>,
      <<"B", "u", "i", "l", "t", ",", " ", "b">>,
      <<"(", "l", "e", "d", ")">>,
      <<"m", "i", "s", "l", "e", "d">> }

\* What follows a sentence body: nothing, ".", "!\n" or "? ".
SentenceEndings == { <<>>, <<".">>, <<"!", "\n">>, <<"?", " ">> }

SentencePieces == { b \o e : b \in SentenceBodies, e \in SentenceEndings }

RECURSIVE Flatten(_)
Flatten(pieces) ==
    IF pieces = <<>> THEN <<>> ELSE Head(pieces) \o Flatten(Tail(pieces))

\* The texts offered: up to MaxSentences pieces in a row.
VerbTexts ==
    { Flatten(p) : p \in UNION { [1..n -> SentencePieces] : n \in 0..MaxSentences } }

VerbIdle ==
    /\ av_pc = "idle"
    /\ av_in = <<>>
    /\ av_out = <<0, 1>>

VerbInit ==
    /\ av_in \in VerbTexts
    /\ av_pc = "called"
    /\ av_out = <<0, 1>>

CallActionVerbRatio ==
    /\ av_pc = "called"
    /\ av_pc' = "returned"
    /\ av_out' = compute_action_verb_ratio(av_in)
    /\ UNCHANGED av_in
    /\ UNCHANGED notVerbVars

(***************************************************************************)
(* Part IX: ResumeAgent.process and MatcherAgent.match                     *)
(* (backend/agents.py) with clean_text (backend/tools/resume_parser.py).   *)
(* The text and the skill lists the extractors return are inputs; the      *)
(* order list(set(...)) gives the resume skills is chosen by the           *)
(* interpreter.                                                            *)
(***************************************************************************)
\* re.sub(r'\s+', ' ', text)
RECURSIVE CollapseWhitespace(_)
CollapseWhitespace(x) ==
    IF x = <<>> THEN <<>>
    ELSE IF IsWhitespace(Head(x))
         THEN <<" ">> \o CollapseWhitespace(SkipWhitespace(x))
    ELSE <<Head(x)>> \o CollapseWhitespace(Tail(x))

\* x starts with a match of \s+([,.])
AtSpacedPunctuation(x) ==
    /\ x # <<>>
    /\ IsWhitespace(Head(x))
    /\ SkipWhitespace(x) # <<>>
    /\ Head(SkipWhitespace(x)) \in {",", "."}

\* re.sub(r'\s+([,.])', r'\1', text)
RECURSIVE TightenPunctuation(_)
TightenPunctuation(x) ==
    IF x = <<>> THEN <<>>
    ELSE IF AtSpacedPunctuation(x)
         THEN TightenPunctuation(SkipWhitespace(x))
    ELSE <<Head(x)>> \o TightenPunctuation(Tail(x))

\* re.sub(r'\n+', '\n', text)
RECURSIVE CollapseNewlines(_)
CollapseNewlines(x) ==
    IF x = <<>> THEN <<>>
    ELSE IF Head(x) = "\n"
         THEN <<"\n">> \o CollapseNewlines(SkipNewlines(x))
    ELSE <<Head(x)>> \o CollapseNewlines(Tail(x))

\* clean_text of resume_parser.py
clean_text(text) ==
    strip(CollapseNewlines(TightenPunctuation(CollapseWhitespace(text))))

\* What ResumeAgent.process returns when the extraction gave raw_text and
\* extract_skills gave skills; "sections" is not read by match.
ResumeData(raw_text, skills) ==
    [raw_text |-> raw_text,
     clean_text |-> clean_text(raw_text),
     skills |-> skills]

\* set(resume_skills + resume_tools)
ResumeSkillSet(resume_data) ==
    SeqToSet(resume_data.skills.skills \o resume_data.skills.tools)

\* The lists list(s) can be: the elements of s once each, in any order.
Orders(s) ==
    { p \in [1..Cardinality(s) -> s] :
        \A i, j \in 1..Cardinality(s) : i # j => p[i] # p[j] }

\* resume_data.get("clean_text") or resume_data.get("raw_text", "")
ResumeTextOf(resume_data) ==
    IF resume_data.clean_text # <<>> THEN resume_data.clean_text
    ELSE resume_data.raw_text

\* semantic_threshold of compare_skills when match calls it, in hundredths.
DefaultThreshold == 75

\* MatcherAgent.match, resume_skill_list being what _extract_resume_skills
\* returned and jd_skills what extract_skills(jd_text) holds under "skills".
match(resume_data, jd_text, resume_skill_list, jd_skills, backend, embed_fn, nltk) ==
    [semantic |-> semantic_similarity_resume_jd(ResumeTextOf(resume_data),
                                                jd_text, backend, nltk),
     skill_comparator |-> compare_skills(resume_skill_list, jd_skills,
                                         embed_fn, DefaultThreshold)]

\* The skill strings extract_skills is offered to return: "a b c d",
\* "a b c", "a", "b".
MatchSkillPool ==
    { <<"a", " ", "b", " ", "c", " ", "d">>, <<"a", " ", "b", " ", "c">>,
      <<"a">>, <<"b">> }

MatchSkillLists == UNION { [1..n -> MatchSkillPool] : n \in 0..MaxSkills }

MatchToolLists == { <<>>, <<<<"a">>>>, <<<<"b">>>> }

MatchJdSkillLists ==
    { <<>>, <<<<"a", " ", "b", " ", "c">>>>, <<<<"b">>>>,
      <<<<"a", " ", "b", " ", "c">>, <<"a">>>> }

\* get_embed_fn_if_available() and the backend of the semantic matcher go
\* together: an embed_fn exists when sentence-transformers loads.
MatchBackends ==
    { [backend |-> "sentence_transformers", embed_fn |-> e] :
        e \in {"e_same", "e_mixed", "e_signed"} }
    \cup { [backend |-> "encode_raises", embed_fn |-> "raises"],
           [backend |-> "none", embed_fn |-> "none"] }

\* The resume texts offered: "a\n\nb", "c\n\nd\n\na", "a b", "a .\n\n\nb ,c",
\* " \n", "", "a. b. c. d".
MatchResumeTexts ==
    { <<"a", "\n", "\n", "b">>,
      <<"c", "\n", "\n", "d", "\n", "\n", "a">>,
      <<"a", " ", "b">>,
      <<"a", " ", ".", "\n", "\n", "\n", "b", " ", ",", "c">>,
      <<" ", "\n">>,
      <<>>,
      <<"a", ".", " ", "b", ".", " ", "c", ".", " ", "d">> }

MatchJdTexts == { <<"a">>, <<"c", "\n", "\n", "d">> }

\* The calls offered: the texts with an embedding backend and no skills,
\* the skill lists with one text, and "b\n\nc" and "b c" against the JD
\* "b c" with the hash fallback.
MatchCalls ==
    [raw_text : MatchResumeTexts, jd_text : MatchJdTexts,
     skills : {<<>>}, tools : {<<>>}, jd_skills : {<<>>},
     env : {[backend |-> "sentence_transformers", embed_fn |-> "e_mixed"]},
     nltk : NltkChoices]
    \cup
    [raw_text : {<<"a", "\n", "\n", "b">>}, jd_text : {<<"a">>},
     skills : MatchSkillLists, tools : MatchToolLists,
     jd_skills : MatchJdSkillLists,
     env : MatchBackends, nltk : {"punkt"}]
    \cup
    [raw_text : {<<"b", "\n", "\n", "c">>, <<"b", " ", "c">>},
     jd_text : {<<"b", " ", "c">>},
     skills : {<<>>}, tools : {<<>>}, jd_skills : {<<>>},
     env : {[backend |-> "encode_raises", embed_fn |-> "raises"],
            [backend |-> "none", embed_fn |-> "none"]},
     nltk : {"punkt"}]

MatcherIdle ==
    /\ mt_pc = "idle"
    /\ mt_in = "none"
    /\ mt_resume = "none"
    /\ mt_out = "none"

MatcherInit ==
    /\ mt_in \in MatchCalls
    /\ mt_pc = "called"
    /\ mt_resume = "none"
    /\ mt_out = "none"

\* ResumeAgent.process on a resume whose extraction succeeds.
ProcessResume ==
    /\ mt_pc = "called"
    /\ mt_pc' = "parsed"
    /\ mt_resume' = ResumeData(mt_in.raw_text,
                               [skills |-> mt_in.skills, tools |-> mt_in.tools])
    /\ UNCHANGED <<mt_in, mt_out>>
    /\ UNCHANGED notMatcherVars

\* MatcherAgent.match on the parsed resume.
Match ==
    /\ mt_pc = "parsed"
    /\ mt_pc' = "matched"
    /\ \E resume_skill_list \in Orders(ResumeSkillSet(mt_resume)) :
         mt_out' = match(mt_resume, mt_in.jd_text, resume_skill_list,
                         mt_in.jd_skills, mt_in.env.backend,
                         mt_in.env.embed_fn, mt_in.nltk)
    /\ UNCHANGED <<mt_in, mt_resume>>
    /\ UNCHANGED notMatcherVars

(***************************************************************************)
(* Part X: ScoringAgent.score and _extract_jd_keywords (backend/agents.py).*)
(* A dict entry is [present, value], value being <<>> when the key is      *)
(* missing; parsed_skills is [kind, items, skills]: missing, a list with   *)
(* its items, or a dict with its "skills" entry.  What score_application   *)
(* computes from the texts is left to the environment; the result records  *)
(* the semantic score and the keywords handed to it.                       *)
(***************************************************************************)
Missing == [present |-> FALSE, value |-> <<>>]
Entry(v) == [present |-> TRUE, value |-> v]

\* d.get(key, default).get(...) on an entry holding a list or nothing.
ValueOf(entry) == entry.value

NoKeywords == [raised |-> FALSE, none |-> TRUE, value |-> <<>>]
KeywordList(v) == [raised |-> FALSE, none |-> FALSE, value |-> v]
AttributeError == [raised |-> TRUE, none |-> TRUE, value |-> <<>>]

\* jd_data.get("requirements", {}).get("required_skills")
RequiredSkills(jd_data) ==
    IF jd_data.requirements.present
    THEN ValueOf(jd_data.requirements.required_skills) ELSE <<>>

\* "A or B or C" of _extract_jd_keywords, evaluated when parsed_skills is a
\* list: A when it is a non-empty list; otherwise B calls .get on the list.
FirstKeywordPath(jd_data) ==
    IF RequiredSkills(jd_data) # <<>>
    THEN KeywordList(RequiredSkills(jd_data))
    ELSE AttributeError

\* ScoringAgent._extract_jd_keywords: the conditional expression
\* "(A or B or C) if isinstance(parsed_skills, list) else None".
extract_jd_keywords(jd_data) ==
    IF jd_data.parsed_skills.kind = "list"
    THEN FirstKeywordPath(jd_data)
    ELSE NoKeywords

\* The semantic score of matcher_result.get("semantic", {})
\* .get("overall_score", 0.0), in hundredths.
SemanticScoreOf(matcher_result) ==
    IF matcher_result.semantic.present
    THEN matcher_result.semantic.value ELSE 0

ScoreError ==
    [error |-> TRUE, final_score |-> 0, semantic_score |-> 0,
     jd_keywords |-> NoKeywords]

\* ScoringAgent.score: an exception of _extract_jd_keywords or of
\* score_application is caught and the error dict returned.
score(jd_data, matcher_result, tool) ==
    IF extract_jd_keywords(jd_data).raised \/ tool = "raises"
    THEN ScoreError
    ELSE [error |-> FALSE, final_score |-> 1,
          semantic_score |-> SemanticScoreOf(matcher_result),
          jd_keywords |-> extract_jd_keywords(jd_data)]

\* requirements of the JD dicts offered: missing, {}, and required_skills
\* [], ["a"], ["a", "b"].
RequirementsChoices ==
    { [present |-> FALSE, required_skills |-> Missing],
      [present |-> TRUE, required_skills |-> Missing],
      [present |-> TRUE, required_skills |-> Entry(<<>>)],
      [present |-> TRUE, required_skills |-> Entry(<<"a">>)],
      [present |-> TRUE, required_skills |-> Entry(<<"a", "b">>)] }

\* parsed_skills of the JD dicts offered: missing; the lists [] and ["c"];
\* the dicts {}, {"skills": []} and {"skills": ["c"]} of extract_skills.
ParsedSkillsChoices ==
    { [kind |-> "missing", items |-> <<>>, skills |-> Missing],
      [kind |-> "list", items |-> <<>>, skills |-> Missing],
      [kind |-> "list", items |-> <<"c">>, skills |-> Missing],
      [kind |-> "dict", items |-> <<>>, skills |-> Missing],
      [kind |-> "dict", items |-> <<>>, skills |-> Entry(<<>>)],
      [kind |-> "dict", items |-> <<>>, skills |-> Entry(<<"c">>)] }

\* score_application, which the environment makes return or raise, is part
\* of the call offered.
\* matcher_result offered: the degraded result {"semantic": {}, ...} and a
\* result with overall_score 0.70.
MatcherResultChoices ==
    { [semantic |-> [present |-> FALSE, value |-> 0]],
      [semantic |-> [present |-> TRUE, value |-> 70]] }

ScoreCalls ==
    [jd_data : [requirements : RequirementsChoices,
                parsed_skills : ParsedSkillsChoices],
     matcher_result : MatcherResultChoices,
     score_application : ToolOutcomes]

ScoringIdle ==
    /\ sc_pc = "idle"
    /\ sc_in = "none"
    /\ sc_keywords = NoKeywords
    /\ sc_out = "none"

ScoringInit ==
    /\ sc_in \in ScoreCalls
    /\ sc_pc = "called"
    /\ sc_keywords = NoKeywords
    /\ sc_out = "none"

\* ScoringAgent.score; sc_keywords keeps what its call of
\* _extract_jd_keywords did.
CallScore ==
    /\ sc_pc = "called"
    /\ sc_pc' = "returned"
    /\ sc_keywords' = extract_jd_keywords(sc_in.jd_data)
    /\ sc_out' = score(sc_in.jd_data, sc_in.matcher_result,
                       sc_in.score_application)
    /\ UNCHANGED sc_in
    /\ UNCHANGED notScoringVars

(***************************************************************************)
(* Specifications                                                          *)
(***************************************************************************)
vars == <<orchVars, pureVars>>

\* Every part other than Part I is at rest.
PureIdle ==
    SkillIdle /\ FuseIdle /\ StoreIdle /\ SemanticIdle /\ CacheIdle
    /\ AnalyticsIdle /\ VerbIdle /\ MatcherIdle /\ ScoringIdle

Init == OrchInit /\ PureIdle

Next == OrchNext

\* Concurrent run() calls on one engine.
Spec == Init /\ [][Next]_vars

\* A step of run r after its start.
RunStep(r) ==
    \/ ResumeFinish(r) \/ JdFinish(r) \/ Join1(r)
    \/ Acquire(r, "matcher") \/ Acquire(r, "optimizer")
    \/ MatcherFinish(r) \/ OptimizerFinish(r) \/ Join2(r)
    \/ ScoreFinish(r) \/ SaveAndReturn(r)

\* The same with the scheduling the event loop and the thread pool give:
\* a run that can take a step (a thread of it can finish, a coroutine of it
\* can be resumed, the semaphore can hand a free permit to its coroutine at
\* the head of the queue) eventually takes one.  Whether a caller invokes
\* run() at all is left open.
Fairness == \A r \in Runs : WF_orchVars(RunStep(r))

FairSpec == Init /\ [][Next]_vars /\ Fairness

\* Calls of compare_skills.
SkillNext ==
    CallCompareSkills /\ UNCHANGED notSkillVars

SkillSpecInit ==
    OrchInit /\ SkillInit /\ FuseIdle /\ StoreIdle
    /\ SemanticIdle /\ CacheIdle /\ AnalyticsIdle /\ VerbIdle /\ MatcherIdle
    /\ ScoringIdle

SkillSpec == SkillSpecInit /\ [][SkillNext]_vars

\* Calls of fuse_components.
FuseNext ==
    CallFuse /\ UNCHANGED notFuseVars

FuseSpecInit ==
    OrchInit /\ SkillIdle /\ FuseInit /\ StoreIdle
    /\ SemanticIdle /\ CacheIdle /\ AnalyticsIdle /\ VerbIdle /\ MatcherIdle
    /\ ScoringIdle

FuseSpec == FuseSpecInit /\ [][FuseNext]_vars

\* The save steps of the runs of one engine.
StoreNext ==
    (\E r \in Runs : SaveResult(r)) /\ UNCHANGED notStoreVars

StoreSpecInit ==
    OrchInit /\ SkillIdle /\ FuseIdle /\ StoreInit
    /\ SemanticIdle /\ CacheIdle /\ AnalyticsIdle /\ VerbIdle /\ MatcherIdle
    /\ ScoringIdle

StoreSpec == StoreSpecInit /\ [][StoreNext]_vars

\* Calls of semantic_similarity_resume_jd.
SemanticNext ==
    CallSemanticSimilarity /\ UNCHANGED notSemanticVars

SemanticSpecInit ==
    OrchInit /\ SkillIdle /\ FuseIdle /\ StoreIdle
    /\ SemanticInit /\ CacheIdle /\ AnalyticsIdle /\ VerbIdle /\ MatcherIdle
    /\ ScoringIdle

SemanticSpec == SemanticSpecInit /\ [][SemanticNext]_vars

\* Threads calling get_embedding and clear_cache of one EmbeddingEngine.
CacheNext ==
    \/ \E t \in Threads, text \in CacheTexts : BeginGetEmbedding(t, text)
    \/ \E t \in Threads : ReadCache(t)
    \/ \E t \in Threads : OpenAIReturns(t)
    \/ \E t \in Threads : LocalFallback(t)
    \/ \E t \in Threads : ClearCache(t)

CacheSpecInit ==
    OrchInit /\ SkillIdle /\ FuseIdle /\ StoreIdle
    /\ SemanticIdle /\ CacheInit /\ AnalyticsIdle /\ VerbIdle /\ MatcherIdle
    /\ ScoringIdle

CacheSpec == CacheSpecInit /\ [][CacheNext]_vars

\* Calls of the scoring methods of an AnalyticsEngine.
AnalyticsNext ==
    \/ CallKeywordOverlapScore
    \/ CallStructureScore
    \/ CallActionVerbsScore
    \/ CallAtsScore

AnalyticsSpecInit ==
    OrchInit /\ SkillIdle /\ FuseIdle /\ StoreIdle
    /\ SemanticIdle /\ CacheIdle /\ AnalyticsInit /\ VerbIdle /\ MatcherIdle
    /\ ScoringIdle

AnalyticsSpec == AnalyticsSpecInit /\ [][AnalyticsNext]_vars

\* Calls of compute_action_verb_ratio.
VerbNext ==
    CallActionVerbRatio

VerbSpecInit ==
    OrchInit /\ SkillIdle /\ FuseIdle /\ StoreIdle
    /\ SemanticIdle /\ CacheIdle /\ AnalyticsIdle /\ VerbInit /\ MatcherIdle
    /\ ScoringIdle

VerbSpec == VerbSpecInit /\ [][VerbNext]_vars

\* ResumeAgent.process followed by MatcherAgent.match.
MatcherNext ==
    \/ ProcessResume
    \/ Match

MatcherSpecInit ==
    OrchInit /\ SkillIdle /\ FuseIdle /\ StoreIdle
    /\ SemanticIdle /\ CacheIdle /\ AnalyticsIdle /\ VerbIdle /\ MatcherInit
    /\ ScoringIdle

MatcherSpec == MatcherSpecInit /\ [][MatcherNext]_vars

\* Calls of ScoringAgent.score.
ScoringNext ==
    CallScore

ScoringSpecInit ==
    OrchInit /\ SkillIdle /\ FuseIdle /\ StoreIdle
    /\ SemanticIdle /\ CacheIdle /\ AnalyticsIdle /\ VerbIdle /\ MatcherIdle
    /\ ScoringInit

ScoringSpec == ScoringSpecInit /\ [][ScoringNext]_vars

(***************************************************************************)
(* Properties                                                              *)
(***************************************************************************)
Returned_(r) == pc[r] = "returned"

HasError(v) == v \in {"jd_default_error", "matcher_default_error",
                      "ats_default_error", "optimizer_error_dict"}

RecordKeys == {"meta", "resume", "jd", "matcher", "optimized_resume", "ats",
               "status"}

\* Backend-calling stages in execution: JD requirement extraction, matching
\* and optimization.
BackendStagesExecuting ==
    Cardinality({r \in Runs : jd_task[r] = "running"})
    + Cardinality({r \in Runs : matcher_st[r] = "running"})
    + Cardinality({r \in Runs : optimizer_st[r] = "running"})

GatedStagesExecuting ==
    Cardinality({r \in Runs : matcher_st[r] = "running"})
    + Cardinality({r \in Runs : optimizer_st[r] = "running"})

\* C1: the output of compare_skills accounts for every entry of the JD list
\* exactly once: each entry is either the JD side of a matched pair or
\* listed in missing_skills, never both and never neither.
C1_EveryJdEntryExactlyOnce ==
    cs_pc = "returned" =>
        \A j \in 1..Len(cs_in.jd_skills) :
            LET inMatched == \E k \in 1..Len(cs_out.matched_skills) :
                                 cs_out.matched_skills[k].jd_entry = j
                inMissing == \E k \in 1..Len(cs_out.missing_entries) :
                                 cs_out.missing_entries[k] = j
            IN inMatched # inMissing

\* C2: at every moment at most 2 backend-calling stages are executing,
\* over all concurrent runs of the engine.
C2_AtMostTwoBackendStages == BackendStagesExecuting <= SemaphoreCapacity

\* C3: if the optimization raised in a run whose resume parse succeeded,
\* the run returns status "success" and optimized_resume = None.
C3_OptimizerFailureYieldsNull ==
    \A r \in Runs :
        (Returned_(r) /\ "optimizer" \in raised[r]
                      /\ "resume" \notin raised[r]) =>
            /\ result[r]["status"] = "success"
            /\ result[r]["optimized_resume"] = Null

\* C4: if resume parsing raised, matching, optimization and scoring are
\* never started in that run, and the run returns a record with status
\* "error", an error string and neither a matcher nor an ats sub-result.
C4_ResumeFailureAborts ==
    \A r \in Runs :
        "resume" \in raised[r] =>
            /\ matcher_st[r] = "none"
            /\ optimizer_st[r] = "none"
            /\ score_st[r] = "none"
            /\ Returned_(r) =>
                 /\ result[r]["status"] = "error"
                 /\ "error" \in DOMAIN result[r]
                 /\ "matcher" \notin DOMAIN result[r]
                 /\ "ats" \notin DOMAIN result[r]

C4_Witness ==
    \E r \in Runs : Returned_(r) /\ "resume" \in raised[r]

\* C5 as stated: every returned record has all of the keys meta, resume,
\* jd, matcher, optimized_resume, ats and status, on every path.
C5_AllKeysOnEveryPath ==
    \A r \in Runs : Returned_(r) => RecordKeys \subseteq DOMAIN result[r]

\* C5 amended: every returned record has meta and status; with status
\* "success" it has all seven keys, a degraded stage being present as its
\* default payload; when resume parsing raised it has exactly meta, status
\* and error.
C5_KeysByStatus ==
    \A r \in Runs :
        Returned_(r) =>
            /\ {"meta", "status"} \subseteq DOMAIN result[r]
            /\ result[r]["status"] \in {"success", "error"}
            /\ result[r]["status"] = "success" =>
                 RecordKeys \subseteq DOMAIN result[r]
            /\ "resume" \in raised[r] =>
                 DOMAIN result[r] = {"meta", "status", "error"}

C5_Witness ==
    \E r1, r2 \in Runs :
        /\ Returned_(r1) /\ "resume" \in raised[r1]
        /\ Returned_(r2) /\ "matcher" \in raised[r2]
                         /\ "scoring" \in raised[r2]

\* C6: a run returns status "error" if and only if its resume parse raised;
\* when JD analysis, matching or scoring failed the run returns "success"
\* and that stage's sub-result is its default payload with an error string.
C6_ErrorOnlyFromResumeParse ==
    \A r \in Runs :
        Returned_(r) =>
            /\ result[r]["status"] = "error" <=> "resume" \in raised[r]
            /\ "resume" \notin raised[r] =>
                 /\ result[r]["status"] = "success"
                 /\ "jd" \in raised[r] =>
                      result[r]["jd"] = "jd_default_error"
                 /\ "matcher" \in raised[r] =>
                      result[r]["matcher"] = "matcher_default_error"
                 /\ "scoring" \in raised[r] =>
                      result[r]["ats"] = "ats_default_error"
                 /\ \A k \in {"jd", "matcher", "ats"} :
                      HasError(result[r][k]) <=>
                        (IF k = "ats" THEN "scoring" ELSE k) \in raised[r]

C6_Witness ==
    \E r \in Runs :
        /\ Returned_(r)
        /\ {"jd", "matcher", "scoring"} \subseteq raised[r]
        /\ result[r]["status"] = "success"

\* C7: matching and optimization start only after resume parsing and JD
\* analysis have both completed, and scoring starts only after matching and
\* optimization have both completed, so scoring never overlaps them.
C7_StageOrdering ==
    \A r \in Runs :
        /\ (matcher_st[r] # "none" \/ optimizer_st[r] # "none") =>
              resume_task[r] = "returned" /\ jd_task[r] = "returned"
        /\ score_st[r] # "none" =>
              matcher_st[r] = "returned" /\ optimizer_st[r] = "returned"

C7_Witness ==
    \E r \in Runs : score_st[r] = "running" /\ "optimizer" \in raised[r]

\* C8: every run() that was started eventually returns a record with
\* status success or error, whatever the contention for the gate.  A run
\* never goes back to "idle" and a returned run stays returned, so this is
\* stated as: from some point on every run is either not started or has
\* returned.
C8_EveryRunReturns ==
    <>[](\A r \in Runs :
            \/ pc[r] = "idle"
            \/ Returned_(r) /\ result[r]["status"] \in {"success", "error"})

C8_Witness ==
    /\ llm_semaphore = 0
    /\ sem_waiters # <<>>
    /\ \E r \in Runs : pc[r] = "stage2" /\ matcher_st[r] = "waiting"

\* C9: the permits held equal the gated stages executing and are at most 2;
\* a stage releases its permit whether it returned or raised, so with no
\* run in progress both permits are free.
C9_PermitsMatchGatedStages ==
    /\ SemaphoreCapacity - llm_semaphore = GatedStagesExecuting
    /\ GatedStagesExecuting <= 2
    /\ llm_semaphore >= 0
    /\ (\A r \in Runs : pc[r] \in {"idle", "returned"}) => llm_semaphore = 2

C9_Witness ==
    /\ \A r \in Runs : Returned_(r)
    /\ \E r \in Runs : {"matcher", "optimizer"} \subseteq raised[r]
    /\ llm_semaphore = 2

\* C10: fuse_components returns final_score in [0, 100] and every component
\* in [0, 100], also for signals outside [0, 1] and for any weights.
C10_FusedScoresInRange ==
    fuse_pc = "returned" =>
        /\ fuse_out.final_score \in 0..10000
        /\ \A k \in DOMAIN fuse_out.components :
             fuse_out.components[k] \in 0..10000

C10_Witness ==
    /\ fuse_pc = "returned"
    /\ fuse_in.semantic_score > 100
    /\ fuse_in.formatting_penalty < 0
    /\ fuse_in.weights.given
    /\ fuse_out.final_score = 10000

\* The call uses the default weights: weights=None, or the same mapping
\* passed explicitly.
UsesDefaultWeights ==
    ~fuse_in.weights.given \/ fuse_in.weights.w = DefaultWeights

\* All six signals of the call equal v (in hundredths).
AllSignals(v) ==
    /\ fuse_in.semantic_score = v
    /\ fuse_in.skill_fit_index = v
    /\ fuse_in.keyword_density = v
    /\ fuse_in.action_verb_ratio = v
    /\ fuse_in.experience_relevance = v
    /\ fuse_in.formatting_penalty = v

SubtractiveScore ==
    LET raw == 30 * clamp01(fuse_in.semantic_score)
               + 30 * clamp01(fuse_in.skill_fit_index)
               + 15 * clamp01(fuse_in.keyword_density)
               + 8 * clamp01(fuse_in.action_verb_ratio)
               + 12 * clamp01(fuse_in.experience_relevance)
               - 5 * clamp01(fuse_in.formatting_penalty)
    IN IF raw <= 0 THEN 0
       ELSE IF raw >= 9500 THEN 10000
       ELSE RoundDiv(100 * raw, 95)

\* C12: with the default weights the formatting term is subtracted:
\* final_score is 100 * clamp01 of the weighted sum of the five positive
\* signals minus 0.05 * formatting_penalty, over 0.95; so a call with a
\* positive formatting_penalty and a score below 100 without it scores
\* strictly lower than the same call without the penalty.
C12_FormattingSubtracted ==
    (fuse_pc = "returned" /\ UsesDefaultWeights) =>
        fuse_out.final_score = SubtractiveScore

\* C13: compare_skills called with an empty JD skill list returns
\* match_percentage = 100, for any resume skill list.
C13_EmptyJdFullMatch ==
    (cs_pc = "returned" /\ cs_in.jd_skills = <<>>) =>
        cs_out.match_percentage = 10000

\* C14: for any lists, any embed_fn and any semantic_threshold,
\* compare_skills returns skill_fit_index in [0, 1] and match_percentage in
\* [0, 100].
C14_SkillScoresInRange ==
    cs_pc = "returned" =>
        /\ cs_out.skill_fit_index \in 0..10000
        /\ cs_out.match_percentage \in 0..10000

C14_Witness ==
    /\ cs_pc = "returned"
    /\ cs_in.embed_fn = "e_signed"
    /\ cs_in.semantic_threshold < 0
    /\ cs_in.resume_skills = <<<<"b">>, <<"A">>>>
    /\ Len(cs_out.matched_skills) = 2
    /\ cs_out.skill_fit_index \in 1..9999

\* The entries of the JD list that are the JD side of a pair of the output.
MatchedJdEntries ==
    {j \in 1..Len(cs_in.jd_skills) :
        \E k \in 1..Len(cs_out.matched_skills) :
            cs_out.matched_skills[k].jd_entry = j}

\* 0.7 * n / total + 0.3 * (mean similarity of the pairs of the output, 0
\* when there is none), rounded to 4 places, in 1/10000.
FitIndexOf(n, total) ==
    LET pairs == cs_out.matched_skills
    IN IF pairs = <<>> THEN RoundDiv(7000 * n, total)
       ELSE RoundDiv(7000 * n * Len(pairs)
                     + 3 * SumSimilarity(pairs) * total,
                     total * Len(pairs))

\* C15: for a non-empty JD list, skill_fit_index = 0.7 * (JD skills that
\* have a match / JD skills) + 0.3 * (mean similarity over the matched
\* pairs, 0 when there is none) and match_percentage = 100 * matched JD
\* count / total JD count, the matched JD count being the number of pairs
\* in matched_skills.
C15_FitIndexFromPairs ==
    (cs_pc = "returned" /\ cs_in.jd_skills # <<>>) =>
        /\ Cardinality(MatchedJdEntries) = Len(cs_out.matched_skills)
        /\ cs_out.match_percentage =
               RoundDiv(10000 * Cardinality(MatchedJdEntries),
                        Len(cs_in.jd_skills))
        /\ cs_out.skill_fit_index =
               FitIndexOf(Cardinality(MatchedJdEntries),
                          Len(cs_in.jd_skills))

\* C17: matching is one-to-one on the JD side across both passes: once a
\* JD skill has been won by a resume skill no later resume skill is paired
\* with it, so no entry of the JD list is the JD side of two pairs of
\* matched_skills.
C17_OneToOneOnJdSide ==
    cs_pc = "returned" =>
        \A k1, k2 \in 1..Len(cs_out.matched_skills) :
            (k1 # k2 /\ cs_out.matched_skills[k1].jd_entry > 0) =>
                cs_out.matched_skills[k1].jd_entry
                    # cs_out.matched_skills[k2].jd_entry

\* The token overlap of two skills over their normalized tokens: the
\* number of common tokens over the number of tokens of the union
\* (by_union) or over the number of tokens of the larger set.
TokenRatio(a, b, by_union) ==
    LET aset == SplitTokens(normalize(a), <<>>)
        bset == SplitTokens(normalize(b), <<>>)
    IN IF aset = {} \/ bset = {} THEN <<0, 1>>
       ELSE IF by_union
            THEN <<Cardinality(aset \cap bset), Cardinality(aset \cup bset)>>
            ELSE <<Cardinality(aset \cap bset),
                   IF Cardinality(aset) >= Cardinality(bset)
                   THEN Cardinality(aset) ELSE Cardinality(bset)>>

\* The JD entries of the pairs before pair k of the output.
WonBefore(k) == {cs_out.matched_skills[m].jd_entry : m \in 1..(k - 1)}

\* Pair k of the output follows the rule of pass 1: its JD entry was not won
\* before; when a not-yet-won JD entry equals the resume skill after
\* normalization the pair is such an entry with similarity 1.0; otherwise
\* its JD entry has the highest overlap among the not-yet-won ones, that
\* overlap is above 0.6 and is the similarity recorded.
PairFollowsRule(k, by_union) ==
    LET pair == cs_out.matched_skills[k]
        jd == cs_in.jd_skills
        free == (1..Len(jd)) \ WonBefore(k)
        ov(e) == TokenRatio(pair.resume_skill, jd[e], by_union)
    IN /\ pair.jd_entry \in free
       /\ IF \E e \in free : normalize(jd[e]) = normalize(pair.resume_skill)
          THEN /\ normalize(jd[pair.jd_entry]) = normalize(pair.resume_skill)
               /\ pair.similarity = 1000
          ELSE /\ 5 * ov(pair.jd_entry)[1] > 3 * ov(pair.jd_entry)[2]
               /\ \A e \in free : ~FracGt(ov(e), ov(pair.jd_entry))
               /\ pair.similarity = Round3(ov(pair.jd_entry))

\* A resume skill that is in no pair has, among the JD entries left
\* unmatched, none equal to it after normalization and none with an overlap
\* above 0.6.
UnpairedFollowRule(by_union) ==
    \A i \in 1..Len(cs_out.extra_resume_skills) :
        \A k \in 1..Len(cs_out.missing_entries) :
            LET r == cs_out.extra_resume_skills[i]
                j == cs_in.jd_skills[cs_out.missing_entries[k]]
            IN /\ normalize(j) # normalize(r)
               /\ 5 * TokenRatio(r, j, by_union)[1]
                    <= 3 * TokenRatio(r, j, by_union)[2]

\* C16 as stated, for calls without embed_fn (their pairs are those of pass
\* 1): the overlap is |tokens(a) \cap tokens(b)| / |tokens(a) \cup tokens(b)|.
C16_PairedByOverlapOverUnion ==
    (cs_pc = "returned" /\ cs_in.embed_fn = "none") =>
        /\ \A k \in 1..Len(cs_out.matched_skills) : PairFollowsRule(k, TRUE)
        /\ UnpairedFollowRule(TRUE)

\* C16 amended: in pass 1 a resume skill with no exactly equal normalized
\* not-yet-matched JD skill is paired with the not-yet-matched JD skill of
\* highest overlap, overlap(a, b) = |tokens(a) \cap tokens(b)| /
\* max(|tokens(a)|, |tokens(b)|), only if that overlap is above 0.6; an
\* exactly equal normalized JD skill is accepted with similarity 1.0.
C16_PairedByOverlapOverLarger ==
    (cs_pc = "returned" /\ cs_in.embed_fn = "none") =>
        /\ \A k \in 1..Len(cs_out.matched_skills) : PairFollowsRule(k, FALSE)
        /\ UnpairedFollowRule(FALSE)

C16_Witness ==
    /\ cs_pc = "returned"
    /\ cs_in.embed_fn = "none"
    /\ cs_in.resume_skills = <<<<"a", " ", "b", " ", "c", " ", "d">>>>
    /\ cs_in.jd_skills = <<<<"d">>, <<"a", " ", "b", " ", "c", " ", "e">>>>
    /\ Len(cs_out.matched_skills) = 1
    /\ cs_out.matched_skills[1].jd_entry = 2
    /\ cs_out.matched_skills[1].similarity = 750

\* C19: a save step whose write failed returns (no exception leaves run())
\* and leaves the record as a save step with saving disabled does: status,
\* sub-results and meta unchanged, no result_path.
C19_FailedSaveChangesNothing ==
    [][\A r \in Runs :
          (save_pc[r] = "saving"
           /\ save_call'[r] \in {"disabled", "open_raises", "dump_raises"}) =>
              /\ save_pc'[r] = "returned"
              /\ save_record'[r] = save_record[r]
              /\ save_meta'[r] = save_meta[r]
              /\ "result_path" \notin save_meta'[r]]_vars

C19_Witness ==
    \E r1, r2 \in Runs :
        /\ save_pc[r1] = "returned" /\ save_call[r1] = "dump_raises"
        /\ save_record[r1]["status"] = "success"
        /\ save_pc[r2] = "returned" /\ save_call[r2] = "open_raises"
        /\ save_record[r2]["status"] = "error"

\* C20: the store is append-only per run: the record a run has saved stays
\* in the store under the run's start second, complete, whatever the other
\* runs of the engine do, also when they started within the same second.
C20_StoredRecordsKept ==
    \A r \in Runs :
        (save_pc[r] = "returned" /\ save_call[r] = "written") =>
            store[started_at[r]] = [run |-> r, complete |-> TRUE]

\* The product of the denominators of the scores from paragraph i on.
RECURSIVE DenominatorProduct(_, _)
DenominatorProduct(scores, i) ==
    IF i > Len(scores) THEN 1
    ELSE scores[i].score[2] * DenominatorProduct(scores, i + 1)

\* Sum of weight * score * common over the paragraphs from i on, common
\* being a multiple of every denominator.
RECURSIVE ScaledWeightedScores(_, _, _, _)
ScaledWeightedScores(scores, chunks, common, i) ==
    IF i > Len(scores) THEN 0
    ELSE Max(1, CountWords(chunks[i], FALSE)) * scores[i].score[1]
            * (common \div scores[i].score[2])
         + ScaledWeightedScores(scores, chunks, common, i + 1)

RECURSIVE TotalWordWeight(_, _)
TotalWordWeight(chunks, i) ==
    IF i > Len(chunks) THEN 0
    ELSE Max(1, CountWords(chunks[i], FALSE)) + TotalWordWeight(chunks, i + 1)

\* The cosine of resume chunk i and JD chunk j of the returned call.
ChunkCosine(i, j) ==
    cosine(get_embedding_for_text(sm_out.resume_chunks[i], sm_in.backend),
           get_embedding_for_text(sm_out.jd_chunks[j], sm_in.backend))

FracGe(x, y) == x[1] * y[2] >= y[1] * x[2]

\* The score of paragraph i is the largest cosine against the JD chunks,
\* or 0 when none is positive.
IsBestMatch(i) ==
    /\ FracGe(sm_out.paragraph_scores[i].score, <<0, 1>>)
    /\ \A j \in 1..Len(sm_out.jd_chunks) :
          FracGe(sm_out.paragraph_scores[i].score, ChunkCosine(i, j))
    /\ \/ sm_out.paragraph_scores[i].score[1] = 0
       \/ \E j \in 1..Len(sm_out.jd_chunks) :
             /\ sm_out.paragraph_scores[i].score = ChunkCosine(i, j)
             /\ sm_out.paragraph_scores[i].best_matching_jd_chunk
                  = sm_out.jd_chunks[j]

\* C21: semantic_similarity_resume_jd returns overall_score =
\* sum_i(w_i * best_i) / sum_i(w_i) over the resume chunks, best_i being
\* the largest cosine of chunk i against the JD chunks floored at 0 and
\* w_i = max(1, word count of chunk i); overall_score lies in [0, 1].
C21_WeightedMeanOfBestMatches ==
    sm_pc = "returned" =>
        /\ Len(sm_out.paragraph_scores) = Len(sm_out.resume_chunks)
        /\ \A i \in 1..Len(sm_out.resume_chunks) : IsBestMatch(i)
        /\ sm_out.overall_score[1]
              * TotalWordWeight(sm_out.resume_chunks, 1)
              * DenominatorProduct(sm_out.paragraph_scores, 1)
           = sm_out.overall_score[2]
              * ScaledWeightedScores(sm_out.paragraph_scores,
                                     sm_out.resume_chunks,
                                     DenominatorProduct(sm_out.paragraph_scores, 1), 1)
        /\ FracGe(sm_out.overall_score, <<0, 1>>)
        /\ FracGe(<<1, 1>>, sm_out.overall_score)

\* Chunks of 5 and 15 words with best matches 0.4 and 0.8 give 0.70.
C21_Witness ==
    /\ sm_pc = "returned"
    /\ Len(sm_out.resume_chunks) = 2
    /\ CountWords(sm_out.resume_chunks[1], FALSE) = 5
    /\ CountWords(sm_out.resume_chunks[2], FALSE) = 15
    /\ sm_out.paragraph_scores[1].score = <<2, 5>>
    /\ sm_out.paragraph_scores[2].score = <<4, 5>>
    /\ sm_out.overall_score = <<7, 10>>

\* C22: for any text t (empty and whitespace-only texts included) and any
\* embedding backend (the hash fallback included),
\* semantic_similarity_resume_jd(t, t) returns overall_score 1.0.
C22_IdenticalTextsScoreOne ==
    sm_pc = "returned" /\ sm_in.resume_text = sm_in.jd_text
        => sm_out.overall_score = <<1, 1>>

\* Two newlines in a row with a visible character somewhere before and
\* somewhere after them.
HasBlankLineBoundary(text) ==
    \E i \in 1..Len(text) - 1 :
        /\ text[i] = "\n" /\ text[i + 1] = "\n"
        /\ strip(SubSeq(text, 1, i)) # <<>>
        /\ strip(SubSeq(text, i + 1, Len(text))) # <<>>

\* The number of groups of three that n sentences make.
GroupsOfThree(n) == (n + 2) \div 3

\* What the claim says of the chunks of one text.
ChunkedAsClaimed(text, chunks) ==
    /\ Len(chunks) >= 1
    /\ HasBlankLineBoundary(text) => Len(chunks) >= 2
    /\ (~HasBlankLineBoundary(text) /\ strip(text) # <<>>)
          => Len(chunks) = GroupsOfThree(Len(SplitSentences(strip(text), <<>>)))

\* C23: _chunk_text_to_paragraphs returns at least one chunk for every
\* input; a text with blank-line boundaries is split at them, and a
\* non-empty text without one but with several sentences is split into
\* groups of 3 sentences rather than returned as one chunk.
C23_SplitAtBlankLinesOrIntoSentenceGroups ==
    sm_pc = "returned" =>
        /\ ChunkedAsClaimed(sm_in.resume_text, sm_out.resume_chunks)
        /\ ChunkedAsClaimed(sm_in.jd_text, sm_out.jd_chunks)

\* C24: the embedding cache is append-only per text key: under any
\* interleaving of get_embedding calls of several threads and of
\* clear_cache, a text key that holds a vector keeps that same vector.
C24_CachedVectorsKept ==
    [][\A text \in CacheTexts :
          emb_cache[text] # NotCached => emb_cache'[text] = emb_cache[text]]_vars

InPointRange(x) == FracGe(x, <<0, 1>>) /\ FracGe(<<100, 1>>, x)

IsSentence(s) == strip(s) # <<>>

SentencesOf(text) == SelectSeq(SplitAtBreaks(text, <<>>), IsSentence)

\* C26: compute_action_verb_ratio returns (number of sentences containing
\* an action verb) / (number of sentences of the text); a non-empty text
\* whose sentences all contain an action verb and end with ".", "?", "!" or
\* a newline yields 1.0.
C26_RatioOverSentences ==
    av_pc = "returned" /\ SentencesOf(av_in) # <<>>
        => av_out[1] * Len(SentencesOf(av_in))
             = av_out[2] * Hits(SentencesOf(av_in))

\* A stage of run r whose worker thread has been started and has not
\* finished.
StillExecuting(r) ==
    \/ resume_task[r] = "running"
    \/ jd_task[r] = "running"
    \/ matcher_st[r] = "running"
    \/ optimizer_st[r] = "running"
    \/ score_st[r] = "running"

\* C27: when run() has returned, no stage of that run is still executing;
\* in particular, when resume parsing raised, the JD analysis started with
\* it has completed before the record is returned.
C27_NoStageOutlivesRun ==
    \A r \in Runs : pc[r] = "returned" => ~StillExecuting(r)

\* What C28 compares of a compare_skills result: the matched pairs and the
\* extra resume skills, whatever their order in the lists, and the index.
SkillOutcome(comp) ==
    [pairs |-> { <<comp.matched_skills[k].resume_skill,
                   comp.matched_skills[k].jd_skill>> :
                     k \in 1..Len(comp.matched_skills) },
     extra |-> SeqToSet(comp.extra_resume_skills),
     skill_fit_index |-> comp.skill_fit_index]

\* The skill part of the result of the call under way had list(set(...))
\* yielded the resume skills in the given order.
SkillOutcomeInOrder(resume_skill_list) ==
    SkillOutcome(match(mt_resume, mt_in.jd_text, resume_skill_list,
                       mt_in.jd_skills, mt_in.env.backend,
                       mt_in.env.embed_fn, mt_in.nltk).skill_comparator)

\* C28: for fixed resume_data, jd_text and embedding function,
\* MatcherAgent.match returns the same matched pairs, extra_resume_skills
\* and skill_fit_index whichever order the deduplicating set() yields the
\* combined resume skills and tools in.
C28_SkillResultIndependentOfSetOrder ==
    mt_pc = "matched"
        => \A resume_skill_list \in Orders(ResumeSkillSet(mt_resume)) :
               SkillOutcomeInOrder(resume_skill_list)
                   = SkillOutcome(mt_out.skill_comparator)

\* The non-empty paragraphs of a text, blank lines separating them.
ParagraphsOf(text) == StrippedParts(SplitParagraphs(text, <<>>))

\* C30: in a pipeline run, for a resume whose extracted text consists of
\* k >= 2 non-empty paragraphs separated by blank lines, MatcherAgent.match
\* produces k resume chunks and k entries in semantic.paragraph_scores.
C30_OneChunkPerParagraph ==
    mt_pc = "matched" /\ Len(ParagraphsOf(mt_in.raw_text)) >= 2
        => /\ Len(mt_out.semantic.resume_chunks)
                = Len(ParagraphsOf(mt_in.raw_text))
           /\ Len(mt_out.semantic.paragraph_scores)
                = Len(ParagraphsOf(mt_in.raw_text))

\* parsed_skills as a list of skills: the list itself, or the "skills"
\* entry of the dict extract_skills returns.
ParsedSkillList(jd_data) ==
    IF jd_data.parsed_skills.kind = "list" THEN jd_data.parsed_skills.items
    ELSE ValueOf(jd_data.parsed_skills.skills)

\* C29: _extract_jd_keywords returns requirements.required_skills whenever
\* that list is non-empty, whatever the type of parsed_skills, and the
\* parsed skills otherwise; it never raises, so score returns a score
\* without an "error" field whenever score_application returns, as on
\* jd_data = {requirements: {}, parsed_skills: []}.
C29_JdKeywordsFromRequirementsOrParsedSkills ==
    sc_pc = "returned"
        => /\ ~sc_keywords.raised
           /\ RequiredSkills(sc_in.jd_data) # <<>>
                => sc_keywords = KeywordList(RequiredSkills(sc_in.jd_data))
           /\ RequiredSkills(sc_in.jd_data) = <<>>
                => sc_keywords.value = ParsedSkillList(sc_in.jd_data)
           /\ sc_in.score_application = "returns" => ~sc_out.error

=============================================================================
